---------------------------- MODULE Spec2Model ----------------------------
(***************************************************************************)
(* Model of plantNodeDemo/main/src/network/coap_client.c: the CoAP message *)
(* builder (coap_message_t), the URI parser, the simple encoder, the UDP   *)
(* transport and the send task.  Byte strings are sequences of byte        *)
(* values; a C string is the sequence of its bytes without the final NUL.  *)
(***************************************************************************)
EXTENDS Integers, Sequences, FiniteSets, TLC

VARIABLES
    msg,      \* the coap_message_t under construction (builder API)
    bcall,    \* the last builder call: its arguments, result and pre-state
    ncalls,   \* number of builder calls made so far
    ein,      \* encoder run: the URI text, payload and buffer size given
    enc,      \* encoder run: the state of build_simple_coap_message
    params,   \* the static params[2] of coap_send_sensor_data_safe
    callers,  \* the invocations of coap_send_sensor_data_safe
    tasks,    \* the coap_send_task created by each invocation
    ap_ok,    \* esp_wifi_sta_get_ap_info() currently returns ESP_OK
    net,      \* the calls of sendto made, in order
    wh,       \* a direct call of wait_for_wifi(timeout_ms)
    runs,     \* the calls of build_simple_coap_message that have returned
    wifi,     \* wifi_manager.c: s_retry_num, the connected bit, events handled
    sem,      \* main.c: the count of wifi_connected_semaphore
    http,     \* a call of http_client_post
    app       \* app_main: where it is and the ticks left of its wait

bvars == <<msg, bcall, ncalls>>
evars == <<ein, enc>>
dvars == <<params, callers, tasks, ap_ok, net>>
svars == <<runs, wifi, sem, http, app>>

(***************************************************************************)
(* Bytes and C strings                                                     *)
(***************************************************************************)
\* Character codes used by the parser and the encoder.
Ch == [slash |-> 47, colon |-> 58, qmark |-> 63, plus |-> 43, minus |-> 45,
       dot |-> 46, zero |-> 48, nine |-> 57, space |-> 32, tab |-> 9,
       nl |-> 10, vt |-> 11, ff |-> 12, cr |-> 13]

\* The NULL pointer, where a C string or a byte array is expected.
NULL == <<-1>>

\* A cell of a buffer that no call has written.
Unwritten == -1

\* b repeated n times.
Rep(b, n) == [i \in 1..n |-> b]

\* memcpy(&buf[at], bytes, Len(bytes)) on a 0-based offset; cells outside
\* the array are not represented.
MemWrite(buf, at, bytes) ==
    IF at >= Len(buf) THEN buf
    ELSE LET room == Len(buf) - at
             put == IF Len(bytes) <= room THEN bytes ELSE SubSeq(bytes, 1, room)
         IN  SubSeq(buf, 1, at) \o put \o SubSeq(buf, at + Len(put) + 1, Len(buf))

Truth(b) == IF b THEN 1 ELSE 0

\* F of the value of e: e is evaluated once, however often F reads it.
Bind(e, F(_)) == CHOOSE r \in {F(v) : v \in {e}} : TRUE

(***************************************************************************)
(* CoAP constants                                                          *)
(***************************************************************************)
COAP_VERSION == 1
COAP_TYPE_CON == 0
COAP_CODE_POST == 2
COAP_OPTION_URI_PATH == 11
COAP_OPTION_CONTENT_FORMAT == 12
COAP_OPTION_URI_QUERY == 15
COAP_CONTENT_FORMAT_JSON == 50
COAP_PAYLOAD_MARKER == 255

\* uint16_t arithmetic.
U16 == 65536
U8 == 256

(***************************************************************************)
(* The message builder: coap_message_init / add_header / add_option /      *)
(* add_payload.  Each operator returns [ok, msg].                          *)
(***************************************************************************)
coap_message_init(buffer, capacity) ==
    [buffer |-> buffer, length |-> 0, capacity |-> capacity,
     last_option_number |-> 0]

coap_message_add_header(m, message_id) ==
    IF m.length + 4 > m.capacity
    THEN [ok |-> FALSE, msg |-> m]
    ELSE [ok |-> TRUE,
          msg |-> [m EXCEPT
             !.buffer = MemWrite(@, 0,
                 << (COAP_VERSION * 64 + COAP_TYPE_CON * 16) % U8,
                    COAP_CODE_POST,
                    (message_id \div U8) % U8,
                    message_id % U8 >>),
             !.length = 4]]

\* uint16_t delta = option_number - msg->last_option_number;
OptionDelta(m, option_number) == (option_number - m.last_option_number) % U16

\* Faulty variant: the pre-computed count forgets the extension bytes.
OptionSpaceNoExt(delta, value_len) == 1 + value_len

\* The pre-computed byte count of an option (lines 152-156).
OptionSpaceNeeded(delta, value_len) ==
    1 + value_len
      + Truth(delta >= 13) + Truth(delta >= 269)
      + Truth(value_len >= 13) + Truth(value_len >= 269)

\* The 4-bit form of a delta or a length (lines 169-184).
Nibble(v) == IF v < 13 THEN v ELSE IF v < 269 THEN 13 ELSE 14

\* Faulty variant: the two-byte extension is written low byte first.
ExtBytesLowFirst(v) ==
    IF Nibble(v) = 13 THEN << (v - 13) % U8 >>
    ELSE IF Nibble(v) = 14
         THEN << ((v - 269) % U16) % U8, (((v - 269) % U16) \div U8) % U8 >>
         ELSE << >>

\* The extension bytes written after the first byte (lines 191-210).
ExtBytes(v) ==
    IF Nibble(v) = 13 THEN << (v - 13) % U8 >>
    ELSE IF Nibble(v) = 14
         THEN << (((v - 269) % U16) \div U8) % U8, ((v - 269) % U16) % U8 >>
         ELSE << >>

\* The bytes of one option in write order: first byte, delta extension,
\* length extension, value.
OptionBytes(delta, value, value_len) ==
    << (Nibble(delta) * 16 + Nibble(value_len)) % U8 >>
      \o ExtBytes(delta) \o ExtBytes(value_len)
      \o (IF value_len > 0 THEN SubSeq(value, 1, value_len) ELSE << >>)

coap_message_add_option(m, option_number, value, value_len) ==
    LET delta == OptionDelta(m, option_number)
        space_needed == OptionSpaceNeeded(delta, value_len)
    IN  IF value = NULL /\ value_len > 0
        THEN [ok |-> FALSE, msg |-> m]
        ELSE IF m.length + space_needed > m.capacity
        THEN [ok |-> FALSE, msg |-> m]
        ELSE LET bytes == OptionBytes(delta, value, value_len)
             IN [ok |-> TRUE,
                 msg |-> [m EXCEPT
                    !.buffer = MemWrite(@, m.length, bytes),
                    !.length = @ + Len(bytes),
                    !.last_option_number = option_number]]

coap_message_add_payload(m, payload) ==
    IF payload = NULL THEN [ok |-> TRUE, msg |-> m]
    ELSE IF Len(payload) = 0 THEN [ok |-> TRUE, msg |-> m]
    ELSE IF m.length + 1 + Len(payload) > m.capacity
    THEN [ok |-> FALSE, msg |-> m]
    ELSE [ok |-> TRUE,
          msg |-> [m EXCEPT
             !.buffer = MemWrite(MemWrite(@, m.length, <<COAP_PAYLOAD_MARKER>>),
                                 m.length + 1, payload),
             !.length = @ + 1 + Len(payload)]]

(***************************************************************************)
(* parse_coap_uri: two sscanf attempts, then the split at the first '?'.   *)
(***************************************************************************)
Byte == 1..255
IsSpace(c) == c \in {Ch.space, Ch.tab, Ch.nl, Ch.vt, Ch.ff, Ch.cr}
NonSpace == {c \in Byte : ~IsSpace(c)}
WhiteSpace == Byte \ NonSpace
NotSlash == Byte \ {Ch.slash}
NotColonSlash == Byte \ {Ch.colon, Ch.slash}
NotQMark == Byte \ {Ch.qmark}
Digits == Ch.zero..Ch.nine

\* sizeof(host), sizeof(path), sizeof(query), sizeof(path_and_query).
HostSize == 64
PathSize == 64
QuerySize == 64
PathAndQuerySize == 128
DefaultPort == 5683

\* "coap://"
Scheme == <<99, 111, 97, 112, 58, 47, 47>>

\* Length of the longest run of bytes of `allowed` in s from index i (1-based),
\* at most max bytes long: what a %[..], %s or %d directive consumes.
Run(s, i, allowed, max) ==
    LET room == IF i > Len(s) THEN 0 ELSE Len(s) - i + 1
        lim == IF max < room THEN max ELSE room
    IN  CHOOSE k \in 0..lim :
            /\ k = lim \/ s[i + k] \notin allowed
            /\ \A j \in 0..(k - 1) : s[i + j] \in allowed

\* The value of the decimal digits s[i..i+d-1].
RECURSIVE DecVal(_, _, _)
DecVal(s, i, d) ==
    IF d = 0 THEN 0 ELSE DecVal(s, i, d - 1) * 10 + (s[i + d - 1] - Ch.zero)

HasLit(s, i, c) == i <= Len(s) /\ s[i] = c

\* %127s from index i: leading white space is skipped, then a run of
\* non-space bytes is stored; [ok, str].
ScanString(s, i) ==
    Bind(i + Run(s, i, WhiteSpace, Len(s)), LAMBDA b :
        LET l == Run(s, b, NonSpace, PathAndQuerySize - 1)
        IN  [ok |-> l > 0, str |-> SubSeq(s, b, b + l - 1)])

\* %d from index i: white space, an optional sign, decimal digits;
\* [ok, val, next].
ScanInt(s, i) ==
    Bind(i + Run(s, i, WhiteSpace, Len(s)), LAMBDA b :
        LET sg == IF HasLit(s, b, Ch.minus) \/ HasLit(s, b, Ch.plus) THEN 1
                  ELSE 0
            d == Run(s, b + sg, Digits, Len(s))
            v == DecVal(s, b + sg, d)
        IN  [ok |-> d > 0,
             val |-> IF HasLit(s, b, Ch.minus) THEN 0 - v ELSE v,
             next |-> b + sg + d])

\* sscanf(uri, "coap://%63[^:/]:%d/%127s", host, &port, path_and_query):
\* the conversions made (n) and what they stored.
SscanfWithPort(uri) ==
    LET none == [n |-> 0, host |-> << >>, port |-> DefaultPort, paq |-> << >>]
        hs == Len(Scheme) + 1
    IN  Bind(Run(uri, hs, NotColonSlash, HostSize - 1), LAMBDA h :
        Bind(ScanInt(uri, hs + h + 1), LAMBDA pt :
        Bind(ScanString(uri, pt.next + 1), LAMBDA pq :
          LET r1 == [none EXCEPT !.n = 1, !.host = SubSeq(uri, hs, hs + h - 1)]
              r2 == [r1 EXCEPT !.n = 2, !.port = pt.val]
          IN  IF SubSeq(uri, 1, Len(Scheme)) # Scheme \/ h = 0 THEN none
              ELSE IF ~HasLit(uri, hs + h, Ch.colon) \/ ~pt.ok THEN r1
              ELSE IF ~HasLit(uri, pt.next, Ch.slash) \/ ~pq.ok THEN r2
              ELSE [r2 EXCEPT !.n = 3, !.paq = pq.str])))

\* sscanf(uri, "coap://%63[^/]/%127s", host, path_and_query).
SscanfNoPort(uri) ==
    LET none == [n |-> 0, host |-> << >>, port |-> DefaultPort, paq |-> << >>]
        hs == Len(Scheme) + 1
    IN  Bind(Run(uri, hs, NotSlash, HostSize - 1), LAMBDA h :
        Bind(ScanString(uri, hs + h + 1), LAMBDA pq :
          LET r1 == [none EXCEPT !.n = 1, !.host = SubSeq(uri, hs, hs + h - 1)]
          IN  IF SubSeq(uri, 1, Len(Scheme)) # Scheme \/ h = 0 THEN none
              ELSE IF ~HasLit(uri, hs + h, Ch.slash) \/ ~pq.ok THEN r1
              ELSE [r1 EXCEPT !.n = 2, !.paq = pq.str]))

\* Faulty variant: the index of the last '?' of s (strrchr).
LastQMark(s) ==
    IF \E k \in 1..Len(s) : s[k] = Ch.qmark
    THEN CHOOSE k \in 1..Len(s) :
            s[k] = Ch.qmark /\ \A j \in (k + 1)..Len(s) : s[j] # Ch.qmark
    ELSE 0

\* Index of the first '?' of s, 0 when there is none (strchr).
FirstQMark(s) ==
    LET r == Run(s, 1, NotQMark, Len(s))
    IN  IF r = Len(s) THEN 0 ELSE r + 1

Prefix(s, n) == SubSeq(s, 1, IF Len(s) < n THEN Len(s) ELSE n)

\* Lines 90-104: the split of path_and_query into parsed->path and
\* parsed->query.  path and query are adjacent 64-byte fields of coap_uri_t:
\* a path part of 64 bytes or more is copied past the end of path (overflow),
\* leaves path without a terminating NUL, and the string read from path then
\* runs on into query.
SplitPathQuery(paq) ==
    LET q == FirstQMark(paq)
        path_len == q - 1
        query == Prefix(SubSeq(paq, q + 1, Len(paq)), QuerySize - 1)
    IN  IF q > 0
        THEN [path |-> IF path_len < PathSize THEN SubSeq(paq, 1, path_len)
                       ELSE SubSeq(paq, 1, PathSize) \o query,
              query |-> query,
              overflow |-> path_len >= PathSize]
        ELSE [path |-> Prefix(paq, PathSize - 1), query |-> << >>,
              overflow |-> FALSE]

NoUri == [ok |-> FALSE, host |-> << >>, port |-> DefaultPort, path |-> << >>,
          query |-> << >>, overflow |-> FALSE]

parse_coap_uri(uri) ==
    IF uri = NULL THEN NoUri
    ELSE Bind(SscanfWithPort(uri), LAMBDA a :
         Bind(SscanfNoPort(uri), LAMBDA b :
         Bind(IF a.n >= 2 THEN a ELSE [b EXCEPT !.port = DefaultPort], LAMBDA r :
         Bind(SplitPathQuery(r.paq), LAMBDA pq :
            IF a.n < 2 /\ b.n < 2 THEN NoUri
            ELSE [ok |-> TRUE, host |-> r.host, port |-> r.port,
                  path |-> pq.path, query |-> pq.query,
                  overflow |-> pq.overflow]))))

(***************************************************************************)
(* build_simple_coap_message, one block of statements per step.            *)
(***************************************************************************)
\* sizeof(path_copy) and the longest segment the one-byte form carries.
PathCopySize == 64
MaxSegLen == 12

\* strtok(s, "/") continued from index `from`: the next token and where the
\* scan resumes; tok = NULL when only delimiters are left.
Strtok(s, from) ==
    LET b == from + Run(s, from, {Ch.slash}, Len(s))
        l == Run(s, b, NotSlash, Len(s))
    IN  IF b > Len(s) THEN [tok |-> NULL, next |-> b]
        ELSE [tok |-> SubSeq(s, b, b + l - 1), next |-> b + l + 1]

\* message_len before build_simple_coap_message stores into it.
NotSet == -1

BuildStart(uri, payload, buffer, buffer_size) ==
    [pc |-> "header", ret |-> FALSE, buffer |-> buffer,
     buffer_size |-> buffer_size, pos |-> 0, uri |-> uri, payload |-> payload,
     path_copy |-> << >>, segment |-> NULL, next |-> 1, first_segment |-> TRUE,
     message_len |-> NotSet, at |-> "none"]

\* return false; `at` keeps the block that returned.
BuildFail(st) == [st EXCEPT !.pc = "done", !.ret = FALSE, !.at = st.pc]

\* Faulty variant: the first token is asked for with strtok(NULL, "/"), which
\* goes on from where the previous call of strtok stopped.
BuildHeaderResuming(st) ==
    IF st.pos + 4 > st.buffer_size THEN BuildFail(st)
    ELSE LET w == [st EXCEPT !.buffer = MemWrite(@, st.pos, <<64, 2, 18, 52>>),
                             !.pos = @ + 4]
             copy == Prefix(st.uri.path, PathCopySize - 1)
             t == Strtok(copy, st.next)
         IN  IF Len(st.uri.path) > 0
             THEN [w EXCEPT !.pc = "segment", !.path_copy = copy,
                            !.segment = t.tok, !.next = t.next,
                            !.first_segment = TRUE]
             ELSE [w EXCEPT !.pc = "content_format"]

\* Lines 296-312: the header, then the first strtok if the path is not empty.
BuildHeader(st) ==
    IF st.pos + 4 > st.buffer_size THEN BuildFail(st)
    ELSE LET w == [st EXCEPT !.buffer = MemWrite(@, st.pos, <<64, 2, 18, 52>>),
                             !.pos = @ + 4]
             copy == Prefix(st.uri.path, PathCopySize - 1)
             t == Strtok(copy, 1)
         IN  IF Len(st.uri.path) > 0
             THEN [w EXCEPT !.pc = "segment", !.path_copy = copy,
                            !.segment = t.tok, !.next = t.next,
                            !.first_segment = TRUE]
             ELSE [w EXCEPT !.pc = "content_format"]

\* Faulty variant: every segment is written with delta 11.
BuildSegmentDelta11(st) ==
    LET seg_len == Len(st.segment)
        t == Strtok(st.path_copy, st.next)
    IN  IF st.segment = NULL \/ seg_len = 0
        THEN [st EXCEPT !.pc = "content_format"]
        ELSE IF seg_len > MaxSegLen THEN BuildFail(st)
        ELSE IF st.pos + 1 + seg_len > st.buffer_size THEN BuildFail(st)
        ELSE [st EXCEPT
                !.buffer = MemWrite(@, st.pos, <<176 + seg_len>> \o st.segment),
                !.pos = @ + 1 + seg_len,
                !.first_segment = FALSE,
                !.segment = t.tok, !.next = t.next]

\* Faulty variant: a segment longer than MaxSegLen is cut to MaxSegLen.
BuildSegmentTruncating(st) ==
    LET seg_len == IF Len(st.segment) > MaxSegLen THEN MaxSegLen
                   ELSE Len(st.segment)
        t == Strtok(st.path_copy, st.next)
    IN  IF st.segment = NULL \/ seg_len = 0
        THEN [st EXCEPT !.pc = "content_format"]
        ELSE IF st.pos + 1 + seg_len > st.buffer_size THEN BuildFail(st)
        ELSE [st EXCEPT
                !.buffer = MemWrite(@, st.pos,
                    << (IF st.first_segment THEN 176 ELSE 0) + seg_len >>
                       \o SubSeq(st.segment, 1, seg_len)),
                !.pos = @ + 1 + seg_len,
                !.first_segment = FALSE,
                !.segment = t.tok, !.next = t.next]

\* Lines 314-337: one iteration of the segment loop.
BuildSegment(st) ==
    LET seg_len == Len(st.segment)
        t == Strtok(st.path_copy, st.next)
    IN  IF st.segment = NULL \/ seg_len = 0
        THEN [st EXCEPT !.pc = "content_format"]
        ELSE IF seg_len > MaxSegLen THEN BuildFail(st)
        ELSE IF st.pos + 1 + seg_len > st.buffer_size THEN BuildFail(st)
        ELSE [st EXCEPT
                !.buffer = MemWrite(@, st.pos,
                    << (IF st.first_segment THEN 176 ELSE 0) + seg_len >>
                       \o st.segment),
                !.pos = @ + 1 + seg_len,
                !.first_segment = FALSE,
                !.segment = t.tok, !.next = t.next]

\* Faulty variant: a Uri-Query option (number 15, delta 3) with the first
\* bytes of the query follows the Content-Format option.
BuildContentFormatAndQuery(st) ==
    LET q == Prefix(st.uri.query, MaxSegLen)
        opt == IF Len(q) = 0 THEN <<17, 50>> ELSE <<17, 50, 48 + Len(q)>> \o q
    IN  IF st.pos + Len(opt) > st.buffer_size THEN BuildFail(st)
        ELSE [st EXCEPT !.buffer = MemWrite(@, st.pos, opt),
                        !.pos = @ + Len(opt), !.pc = "payload"]

\* Faulty variant: the capacity check counts one byte for the two written.
BuildContentFormatOneByte(st) ==
    IF st.pos + 1 > st.buffer_size THEN BuildFail(st)
    ELSE [st EXCEPT !.buffer = MemWrite(@, st.pos, <<17, 50>>),
                    !.pos = @ + 2, !.pc = "payload"]

\* Lines 340-344: the Content-Format option, written as delta 1, length 1.
BuildContentFormat(st) ==
    IF st.pos + 2 > st.buffer_size THEN BuildFail(st)
    ELSE [st EXCEPT !.buffer = MemWrite(@, st.pos, <<17, 50>>),
                    !.pos = @ + 2, !.pc = "payload"]

\* Faulty variant: the payload is appended without its marker byte.
BuildPayloadNoMarker(st) ==
    IF st.payload # NULL /\ Len(st.payload) > 0
    THEN IF st.pos + Len(st.payload) > st.buffer_size THEN BuildFail(st)
         ELSE [st EXCEPT
                 !.buffer = MemWrite(@, st.pos, st.payload),
                 !.pos = @ + Len(st.payload),
                 !.message_len = st.pos + Len(st.payload),
                 !.pc = "done", !.ret = TRUE, !.at = "payload"]
    ELSE [st EXCEPT !.message_len = st.pos, !.pc = "done", !.ret = TRUE,
                    !.at = "payload"]

\* Lines 351-367 and 382: the payload, then *message_len = pos.
BuildPayload(st) ==
    IF st.payload # NULL /\ Len(st.payload) > 0
    THEN IF st.pos + 1 + Len(st.payload) > st.buffer_size THEN BuildFail(st)
         ELSE [st EXCEPT
                 !.buffer = MemWrite(@, st.pos, <<255>> \o st.payload),
                 !.pos = @ + 1 + Len(st.payload),
                 !.message_len = st.pos + 1 + Len(st.payload),
                 !.pc = "done", !.ret = TRUE, !.at = "payload"]
    ELSE [st EXCEPT !.message_len = st.pos, !.pc = "done", !.ret = TRUE,
                    !.at = "payload"]

BuildStep(st) ==
    CASE st.pc = "header" -> BuildHeader(st)
      [] st.pc = "segment" -> BuildSegment(st)
      [] st.pc = "content_format" -> BuildContentFormat(st)
      [] st.pc = "payload" -> BuildPayload(st)
      [] OTHER -> st

RECURSIVE BuildRun(_)
BuildRun(st) ==
    Bind(st, LAMBDA v : IF v.pc = "done" THEN v ELSE BuildRun(BuildStep(v)))

\* The whole call: [ret, buffer, message_len, ...].
build_simple_coap_message(uri, payload, buffer, buffer_size) ==
    BuildRun(BuildStart(uri, payload, buffer, buffer_size))

(***************************************************************************)
(* wait_for_wifi: one evaluation of the loop test per step.  After a poll   *)
(* that found the station not associated the caller is asleep in           *)
(* vTaskDelay until the next tick of PollPeriodMs.                         *)
(***************************************************************************)
\* vTaskDelay(pdMS_TO_TICKS(100)); waited += 100;
PollPeriodMs == 100

WaitStart(timeout_ms) ==
    [timeout_ms |-> timeout_ms, waited |-> 0, polls |-> 0, ret |-> "running",
     asleep |-> FALSE]

\* Faulty variant: the loop runs while waited <= timeout_ms.
WaitStepInclusive(w, ready) ==
    IF w.waited <= w.timeout_ms
    THEN IF ready
         THEN [w EXCEPT !.polls = @ + 1, !.ret = "true"]
         ELSE [w EXCEPT !.polls = @ + 1, !.waited = @ + PollPeriodMs,
                        !.asleep = TRUE]
    ELSE [w EXCEPT !.ret = "false"]

\* `ready` is what esp_wifi_sta_get_ap_info answers if it is asked now.
WaitStep(w, ready) ==
    IF w.waited < w.timeout_ms
    THEN IF ready
         THEN [w EXCEPT !.polls = @ + 1, !.ret = "true"]
         ELSE [w EXCEPT !.polls = @ + 1, !.waited = @ + PollPeriodMs,
                        !.asleep = TRUE]
    ELSE [w EXCEPT !.ret = "false"]

\* vTaskDelay returns.
WaitWake(w) == [w EXCEPT !.asleep = FALSE]

(***************************************************************************)
(* The message buffer of coap_send_sensor_data.                             *)
(***************************************************************************)
\* sizeof(coap_buffer) in coap_send_sensor_data.
CoapBufferSize == 512
\* A payload too long for that buffer behind any header and path.
BigPayloadLen == 510
BigPayload == Rep(120, BigPayloadLen)

(***************************************************************************)
(* Builder specification: every sequence of at most MaxBuilderCalls calls  *)
(* on a message initialised over a buffer of every capacity up to          *)
(* MaxCapacity.                                                            *)
(***************************************************************************)
MaxCapacity == 20
MaxBuilderCalls == 3

Capacities == 0..MaxCapacity
OptionNumbers == {0, COAP_OPTION_URI_PATH, COAP_OPTION_CONTENT_FORMAT, 24, 300}
OptionValues == {<< >>, <<97>>, Rep(99, 13)}
BuilderPayloads == {NULL, << >>, <<123>>, <<123, 34, 116, 125>>}
MessageIds == {4660}

NoCall == [op |-> "init", ok |-> TRUE, number |-> 0, value |-> << >>,
           value_len |-> 0, payload |-> << >>,
           pre |-> coap_message_init(<< >>, 0)]

BuilderInit ==
    /\ \E c \in Capacities :
          msg = coap_message_init(Rep(Unwritten, c), c)
    /\ bcall = [NoCall EXCEPT !.pre = msg]
    /\ ncalls = 0

\* The record of one call of the builder API; r is what the call returned.
Called(r, info) == [info EXCEPT !.ok = r.ok, !.pre = msg]

AddHeader ==
    /\ bcall.op # "idle"
    /\ ncalls < MaxBuilderCalls
    /\ \E id \in MessageIds :
          LET r == coap_message_add_header(msg, id)
          IN  /\ msg' = r.msg
              /\ bcall' = Called(r, [NoCall EXCEPT !.op = "header"])
    /\ ncalls' = ncalls + 1
    /\ UNCHANGED <<svars, evars, dvars, wh>>

AddOption ==
    /\ bcall.op # "idle"
    /\ ncalls < MaxBuilderCalls
    /\ \E n \in OptionNumbers, v \in OptionValues :
          LET r == coap_message_add_option(msg, n, v, Len(v))
          IN  /\ msg' = r.msg
              /\ bcall' = Called(r, [NoCall EXCEPT !.op = "option",
                                         !.number = n, !.value = v,
                                         !.value_len = Len(v)])
    /\ ncalls' = ncalls + 1
    /\ UNCHANGED <<svars, evars, dvars, wh>>

\* value == NULL with a length of 0 or 1.
AddOptionNull ==
    /\ bcall.op # "idle"
    /\ ncalls < MaxBuilderCalls
    /\ \E n \in {COAP_OPTION_URI_PATH}, l \in {0, 1} :
          LET r == coap_message_add_option(msg, n, NULL, l)
          IN  /\ msg' = r.msg
              /\ bcall' = Called(r, [NoCall EXCEPT !.op = "option",
                                         !.number = n, !.value = NULL,
                                         !.value_len = l])
    /\ ncalls' = ncalls + 1
    /\ UNCHANGED <<svars, evars, dvars, wh>>

AddPayload ==
    /\ bcall.op # "idle"
    /\ ncalls < MaxBuilderCalls
    /\ \E p \in BuilderPayloads :
          LET r == coap_message_add_payload(msg, p)
          IN  /\ msg' = r.msg
              /\ bcall' = Called(r, [NoCall EXCEPT !.op = "payload",
                                         !.payload = p])
    /\ ncalls' = ncalls + 1
    /\ UNCHANGED <<svars, evars, dvars, wh>>

BuilderNext == AddHeader \/ AddOption \/ AddOptionNull \/ AddPayload

(***************************************************************************)
(* Option specification: at most MaxOptionCalls calls of                   *)
(* coap_message_add_option on a message initialised over buffers small and *)
(* large, with option numbers and value lengths on both sides of every     *)
(* boundary of the delta and length encodings (13, 269, and the end of the  *)
(* 16-bit extension).                                                      *)
(***************************************************************************)
MaxOptionCalls == 1

WideCapacities == {0, 1, 2, 3, 4, 14, 15, 16, 272, 273, 540, 66000}
WideNumbers == {0, 12, 13, 268, 269, 270, 65535}
WideValues == {Rep(99, n) : n \in {0, 12, 13, 268, 269, 65804, 65805}}

OptionInit ==
    /\ \E c \in WideCapacities :
          msg = coap_message_init(Rep(Unwritten, c), c)
    /\ bcall = [NoCall EXCEPT !.pre = msg]
    /\ ncalls = 0

AddOptionWide ==
    /\ bcall.op # "idle"
    /\ ncalls < MaxOptionCalls
    /\ \E n \in WideNumbers, v \in WideValues :
          LET r == coap_message_add_option(msg, n, v, Len(v))
          IN  /\ msg' = r.msg
              /\ bcall' = Called(r, [NoCall EXCEPT !.op = "option",
                                         !.number = n, !.value = v,
                                         !.value_len = Len(v)])
    /\ ncalls' = ncalls + 1
    /\ UNCHANGED <<svars, evars, dvars, wh>>


(***************************************************************************)
(* Encoder specification: parse_coap_uri then build_simple_coap_message,   *)
(* for URIs assembled from a host, an optional port, a path of up to       *)
(* MaxSegs segments (empty ones give doubled or trailing slashes) and an   *)
(* optional query, into buffers of every size up to MaxBufferSize and of   *)
(* the size coap_send_sensor_data uses.                                    *)
(***************************************************************************)
MaxSegs == 3
MaxBufferSize == 30

\* "a", "light-sensor" (12 bytes), "soil-moisture" (13 bytes)
SegA == <<97>>
Seg12 == <<108, 105, 103, 104, 116, 45, 115, 101, 110, 115, 111, 114>>
Seg13 == <<115, 111, 105, 108, 45, 109, 111, 105, 115, 116, 117, 114, 101>>
SegPool == {<< >>, SegA, Seg12, Seg13}

RECURSIVE JoinSegs(_)
JoinSegs(segs) ==
    IF Len(segs) = 0 THEN << >>
    ELSE IF Len(segs) = 1 THEN segs[1]
    ELSE segs[1] \o <<Ch.slash>> \o JoinSegs(Tail(segs))

SegLists == UNION {[1..k -> SegPool] : k \in 1..MaxSegs}
PathTexts == {<< >>} \cup {<<Ch.slash>> \o JoinSegs(l) : l \in SegLists}
\* "10.0.0.5", ":5683", "?k=v", "{"t":1}"
HostText == <<49, 48, 46, 48, 46, 48, 46, 53>>
PortTexts == {<< >>, <<58, 53, 54, 56, 51>>}
QueryTexts == {<< >>, <<63, 107, 61, 118>>}
PayloadT1 == <<123, 34, 116, 34, 58, 49, 125>>
EncPayloads == {<< >>, PayloadT1, BigPayload}
EncUris == {Scheme \o HostText \o pt \o pa \o q :
               pt \in PortTexts, pa \in PathTexts, q \in QueryTexts}
BufferSizes == (0..MaxBufferSize) \cup {CoapBufferSize}

EncIdle == [BuildStart(NoUri, << >>, << >>, 0) EXCEPT !.pc = "idle"]

EncInit ==
    /\ ein \in [uri : EncUris, payload : EncPayloads, buffer_size : BufferSizes]
    /\ enc = [EncIdle EXCEPT !.pc = "parse"]

\* parse_coap_uri; a rejected URI ends the run.
EncParse ==
    /\ enc.pc = "parse"
    /\ LET u == parse_coap_uri(ein.uri)
       IN  enc' = IF u.ok
                  THEN BuildStart(u, ein.payload,
                                  Rep(Unwritten, ein.buffer_size),
                                  ein.buffer_size)
                  ELSE [enc EXCEPT !.pc = "rejected"]
    /\ UNCHANGED <<svars, ein, bvars, dvars, wh>>

EncHeader ==
    /\ enc.pc = "header"
    /\ enc' = BuildHeader(enc)
    /\ UNCHANGED <<svars, ein, bvars, dvars, wh>>

EncSegment ==
    /\ enc.pc = "segment"
    /\ enc' = BuildSegment(enc)
    /\ UNCHANGED <<svars, ein, bvars, dvars, wh>>

EncContentFormat ==
    /\ enc.pc = "content_format"
    /\ enc' = BuildContentFormat(enc)
    /\ UNCHANGED <<svars, ein, bvars, dvars, wh>>

EncPayload ==
    /\ enc.pc = "payload"
    /\ enc' = BuildPayload(enc)
    /\ UNCHANGED <<svars, ein, bvars, dvars, wh>>

EncNext == EncParse \/ EncHeader \/ EncSegment \/ EncContentFormat \/ EncPayload

(***************************************************************************)
(* Repeated encoding: build_simple_coap_message called again and again,    *)
(* each call into a fresh buffer.  The locals of a call are not            *)
(* initialised: they start with what the previous call left in the same    *)
(* stack cells, and strtok starts with the position it kept.               *)
(***************************************************************************)
MaxRuns == 3

\* "coap://10.0.0.5/a/a"
UriTwoSegs == Scheme \o HostText \o <<47, 97, 47, 97>>
RepeatUris == {Scheme \o HostText, UriTwoSegs,
               Scheme \o HostText \o <<47>> \o Seg13}
RepeatSizes == {9, CoapBufferSize}
RepeatInputs ==
    [uri : RepeatUris, payload : {<< >>, PayloadT1}, buffer_size : RepeatSizes]

\* What a call that has returned gave: its arguments, the value returned,
\* the buffer and *message_len.
Returned(st) ==
    [uri |-> st.uri, payload |-> st.payload, buffer_size |-> st.buffer_size,
     ret |-> st.ret, buffer |-> st.buffer, message_len |-> st.message_len]

\* The entry of a call that follows the call that ended in prev.
BuildRestart(prev, uri, payload, buffer, buffer_size) ==
    [BuildStart(uri, payload, buffer, buffer_size) EXCEPT
        !.path_copy = prev.path_copy, !.segment = prev.segment,
        !.next = prev.next, !.first_segment = prev.first_segment]

RepeatInit ==
    /\ ein \in RepeatInputs
    /\ enc = [EncIdle EXCEPT !.pc = "parse"]

\* The call has returned; the next one is made with any of the inputs.
EncRepeat ==
    /\ enc.pc = "done"
    /\ Len(runs) < MaxRuns - 1
    /\ runs' = Append(runs, Returned(enc))
    /\ \E a \in RepeatInputs :
          /\ ein' = a
          /\ enc' = BuildRestart(enc, parse_coap_uri(a.uri), a.payload,
                                 Rep(Unwritten, a.buffer_size), a.buffer_size)
    /\ UNCHANGED <<bvars, dvars, wh, wifi, sem, http, app>>

(***************************************************************************)
(* Parser specification: one run of parse_coap_uri and                     *)
(* build_simple_coap_message on URIs whose host, port, path and query      *)
(* reach and pass the widths of the fields of coap_uri_t.                   *)
(***************************************************************************)
\* "light-sensor/light-sensor/light-sensor/light-sensor/light-sensor": as
\* many bytes as parsed->path has, one more than it can hold as a string.
LongPath == JoinSegs([k \in 1..5 |-> Seg12])

\* "h", "10.0.0.5", 63 and 64 times 'h', ""
ParseHosts ==
    {<<104>>, HostText, Rep(104, HostSize - 1), Rep(104, HostSize), << >>}
\* "", ":5683", ":0", ":65535", ":080", ":70000", ":-1"
ParsePorts ==
    {<< >>, <<58, 53, 54, 56, 51>>, <<58, 48>>, <<58, 54, 53, 53, 51, 53>>,
     <<58, 48, 56, 48>>, <<58, 55, 48, 48, 48, 48>>, <<58, 45, 49>>}
\* "", "/", "/a", "/sensor/send-data", then paths of 63, 64 and 66 bytes
ParsePaths ==
    {<< >>, <<47>>, <<47, 97>>,
     <<47, 115, 101, 110, 115, 111, 114, 47, 115, 101, 110, 100, 45, 100, 97, 116, 97>>,
     <<47>> \o Prefix(LongPath, PathSize - 1),
     <<47>> \o LongPath,
     <<47>> \o LongPath \o <<47, 97>>}
\* "", "?", "?k=v", "?a?b/c", then queries of 63 and 64 bytes
ParseQueries ==
    {<< >>, <<63>>, <<63, 107, 61, 118>>, <<63, 97, 63, 98, 47, 99>>,
     <<63>> \o Rep(113, QuerySize - 1), <<63>> \o Rep(113, QuerySize)}
ParseUris ==
    {Scheme \o h \o pt \o pa \o q :
        h \in ParseHosts, pt \in ParsePorts, pa \in ParsePaths,
        q \in ParseQueries}

ParseInputs ==
    [uri : ParseUris, payload : {<< >>, PayloadT1},
     buffer_size : {CoapBufferSize}]

(***************************************************************************)
(* Inputs of the dispatch specifications                                   *)
(***************************************************************************)
MaxInvocations == 2
\* An invocation starts at most this many ticks after the first instant.
MaxStartDelay == 1

\* "coap://192.168.1.52:5683/sensor/send-data", "http://10.0.0.5/a",
\* "coap://10.0.0.5/soil-moisture", "coap://sensor.local/a",
\* "coap://10.0.0.5/a", "coap://10.0.0.5:5683"
UriScenarioA == <<99, 111, 97, 112, 58, 47, 47, 49, 57, 50, 46, 49, 54, 56, 46, 49, 46, 53, 50, 58, 53, 54, 56, 51, 47, 115, 101, 110, 115, 111, 114, 47, 115, 101, 110, 100, 45, 100, 97, 116, 97>>
UriHttp == <<104, 116, 116, 112, 58, 47, 47, 49, 48, 46, 48, 46, 48, 46, 53, 47, 97>>
UriLongSeg == <<99, 111, 97, 112, 58, 47, 47, 49, 48, 46, 48, 46, 48, 46, 53, 47, 115, 111, 105, 108, 45, 109, 111, 105, 115, 116, 117, 114, 101>>
UriName == <<99, 111, 97, 112, 58, 47, 47, 115, 101, 110, 115, 111, 114, 46, 108, 111, 99, 97, 108, 47, 97>>
UriShort == <<99, 111, 97, 112, 58, 47, 47, 49, 48, 46, 48, 46, 48, 46, 53, 47, 97>>
UriNoPath == <<99, 111, 97, 112, 58, 47, 47, 49, 48, 46, 48, 46, 48, 46, 53, 58, 53, 54, 56, 51>>

\* "coap://10.0.0.5/soil-moisture/a", "coap://10.0.0.5/a/soil-moisture",
\* "coap://10.0.0.5/a/soil-moistures/a" (a 14-byte segment in the middle)
UriLongFirst == UriLongSeg \o <<47, 97>>
UriLongLast == UriShort \o <<47>> \o Seg13
UriLongMiddle == UriShort \o <<47>> \o Seg13 \o <<115, 47, 97>>

\* "coap://10.0.0.5:70000/a", "coap:///a", "coap://:5683/a"
UriBigPort == Scheme \o HostText \o <<58, 55, 48, 48, 48, 48, 47, 97>>
UriEmptyHost == Scheme \o <<47, 97>>
UriEmptyHostPort == Scheme \o <<58, 53, 54, 56, 51, 47, 97>>
\* "coap://10.0.0.5/a?k=v", "coap://10.0.0.5/?k=v", "coap://10.0.0.5/"
UriQuery == UriShort \o <<63, 107, 61, 118>>
UriQueryOnly == Scheme \o HostText \o <<47, 63, 107, 61, 118>>
UriSlashOnly == Scheme \o HostText \o <<47>>

SendInputs ==
    { [uri |-> UriScenarioA, payload |-> PayloadT1],
      [uri |-> UriBigPort, payload |-> PayloadT1],
      [uri |-> UriEmptyHost, payload |-> PayloadT1],
      [uri |-> UriEmptyHostPort, payload |-> PayloadT1],
      [uri |-> UriQuery, payload |-> PayloadT1],
      [uri |-> UriQueryOnly, payload |-> PayloadT1],
      [uri |-> UriSlashOnly, payload |-> PayloadT1],
      [uri |-> UriScenarioA, payload |-> << >>],
      [uri |-> NULL, payload |-> PayloadT1],
      [uri |-> UriShort, payload |-> NULL],
      [uri |-> UriHttp, payload |-> PayloadT1],
      [uri |-> UriLongSeg, payload |-> PayloadT1],
      [uri |-> UriLongFirst, payload |-> PayloadT1],
      [uri |-> UriLongLast, payload |-> << >>],
      [uri |-> UriLongMiddle, payload |-> PayloadT1],
      [uri |-> UriName, payload |-> PayloadT1],
      [uri |-> UriNoPath, payload |-> PayloadT1],
      [uri |-> UriShort, payload |-> BigPayload] }

WaitTimeouts == {-100, 0, 50, 100, 150, 250, 300}

\* The arguments of invocation i when several run together: each has a
\* host and a payload of its own ("coap://10.0.0.<i>:5683/a", "<i>").
InvocationArgs(i) ==
    [uri |-> Scheme \o <<49, 48, 46, 48, 46, 48, 46>> \o <<Ch.zero + i>> \o <<58, 53, 54, 56, 51, 47, 97>>,
     payload |-> <<Ch.zero + i>>]

(***************************************************************************)
(* send_coap_udp, coap_send_sensor_data and coap_send_task, one call of    *)
(* the platform or of a function of this file per step, on the record t of *)
(* the calling task.                                                       *)
(***************************************************************************)
\* wait_for_wifi(10000) in coap_send_task.
WifiWaitMs == 10000

\* inet_pton(AF_INET, host, ..) > 0: four decimal fields of 1 to 3 digits,
\* each at most 255, separated by '.'.
RECURSIVE DottedFields(_, _, _)
DottedFields(h, i, k) ==
    \E d \in {Run(h, i, Digits, 3)} :
        /\ d > 0
        /\ DecVal(h, i, d) <= 255
        /\ IF k = 1 THEN i + d = Len(h) + 1
           ELSE HasLit(h, i + d, Ch.dot) /\ DottedFields(h, i + d + 1, k - 1)

InetPton(host) == DottedFields(host, 1, 4)

\* What sendto may return for a datagram of len bytes: an error, all of
\* it, or fewer bytes than asked.
SendResults(len) == {-1, len} \cup (IF len > 0 THEN {len - 1} ELSE {})

NewTask ==
    [pc |-> "none", uri |-> NULL, payload |-> NULL, w |-> WaitStart(WifiWaitMs),
     parsed |-> NoUri, message |-> << >>, message_len |-> NotSet,
     sock |-> "none", sent |-> 0, outcome |-> "none", trace |-> << >>]

Finish(t, outcome) == [t EXCEPT !.pc = "delete", !.outcome = outcome]
Did(t, what) == [t EXCEPT !.trace = Append(@, what)]

\* coap_send_task, lines 424-425: the two reads of the array pv points at.
TaskReadUri(t, pv) == [t EXCEPT !.uri = pv[1], !.pc = "read_payload"]
TaskReadPayload(t, pv) == [t EXCEPT !.payload = pv[2], !.pc = "wait"]

\* coap_send_task, line 427: one step of the call wait_for_wifi(10000).
TaskWait(t, ready) ==
    LET w == WaitStep(t.w, ready)
    IN  [t EXCEPT !.w = w, !.pc = IF w.ret = "running" THEN "wait" ELSE "waited"]

\* Faulty variant: the send goes on whatever wait_for_wifi returned.
TaskWaitedAnyway(t) ==
    LET u == [t EXCEPT !.w = [WaitStart(WifiWaitMs) EXCEPT !.ret = t.w.ret]]
    IN  IF t.w.ret = "true" THEN [Did(u, "ready") EXCEPT !.pc = "parse"]
        ELSE [Did(u, "not_ready") EXCEPT !.pc = "parse"]

\* coap_send_task, lines 427-431: the branch on what wait_for_wifi returned;
\* its locals are gone.
TaskWaited(t) ==
    LET u == [t EXCEPT !.w = [WaitStart(WifiWaitMs) EXCEPT !.ret = t.w.ret]]
    IN  IF t.w.ret = "true" THEN [Did(u, "ready") EXCEPT !.pc = "parse"]
        ELSE Finish(Did(u, "not_ready"), "timeout")

\* vTaskDelete(NULL): the task and its stack are gone; the record keeps how
\* the attempt ended.
TaskDelete(t) ==
    [pc |-> "deleted", uri |-> NULL, payload |-> NULL,
     w |-> WaitStart(WifiWaitMs), parsed |-> NoUri, message |-> << >>,
     message_len |-> NotSet, sock |-> t.sock, sent |-> 0,
     outcome |-> t.outcome, trace |-> << >>]

\* coap_send_sensor_data, lines 389-398.
SendParse(t) ==
    LET u == parse_coap_uri(t.uri)
    IN  IF t.uri = NULL \/ t.payload = NULL
        THEN Finish(Did(t, "invalid"), "invalid_parameters")
        ELSE IF ~u.ok THEN Finish(Did(t, "parse_failed"), "parse_failure")
        ELSE [Did(t, "parsed") EXCEPT !.parsed = u, !.pc = "build"]

\* coap_send_sensor_data, lines 401-409.
SendBuild(t) ==
    Bind(build_simple_coap_message(t.parsed, t.payload,
             Rep(Unwritten, CoapBufferSize), CoapBufferSize),
         LAMBDA b :
            IF ~b.ret THEN Finish(Did(t, "build_failed"), "encode_failure")
            ELSE [Did(t, "built") EXCEPT
                     !.message = SubSeq(b.buffer, 1, b.message_len),
                     !.message_len = b.message_len, !.pc = "socket"])

\* send_coap_udp, lines 259-263; created says whether socket() gave one.
SendSocket(t, created) ==
    IF ~created THEN Finish(Did(t, "socket_failed"), "transmit_failure")
    ELSE [Did(t, "socket") EXCEPT !.sock = "open", !.pc = "pton"]

\* Faulty variant: the address failure path returns without close(sock).
SendPtonLeaking(t) ==
    IF ~InetPton(t.parsed.host)
    THEN Finish(Did(t, "address_failed"), "transmit_failure")
    ELSE [Did(t, "address") EXCEPT !.pc = "sendto"]

\* Faulty variant: the result of inet_pton is ignored.
SendPtonUnchecked(t) ==
    IF ~InetPton(t.parsed.host)
    THEN [Did(t, "address_failed") EXCEPT !.pc = "sendto"]
    ELSE [Did(t, "address") EXCEPT !.pc = "sendto"]

\* send_coap_udp, lines 265-273.
SendPton(t) ==
    IF ~InetPton(t.parsed.host)
    THEN Finish([Did(t, "address_failed") EXCEPT !.sock = "closed"],
                "transmit_failure")
    ELSE [Did(t, "address") EXCEPT !.pc = "sendto"]

\* send_coap_udp, lines 275-276; r is what sendto returned.
SendSendto(t, r) == [Did(t, "sendto") EXCEPT !.sent = r, !.pc = "close"]

\* Faulty variant: a failed sendto is tried again.
SendCloseRetrying(t) ==
    IF t.sent < 0 THEN [Did(t, "send_failed") EXCEPT !.pc = "sendto"]
    ELSE Finish(Did([t EXCEPT !.sock = "closed"], "sent"), "sent")

\* send_coap_udp, lines 278-288, and coap_send_sensor_data, lines 412-417.
SendClose(t) ==
    LET u == [t EXCEPT !.sock = "closed"]
    IN  IF t.sent < 0 THEN Finish(Did(u, "send_failed"), "transmit_failure")
        ELSE Finish(Did(u, "sent"), "sent")

\* The call sendto(sock, message, message_len, 0, &server_addr, ..) of task
\* i and what it returned; sin_port = htons(uri->port) is a uint16_t.
\* `connected` is what wifi_manager_is_connected() would have answered.
SendtoCall(i, t, r) ==
    [task |-> i, host |-> t.parsed.host, port |-> t.parsed.port % U16,
     message |-> t.message, message_len |-> t.message_len, ret |-> r,
     connected |-> wifi.connected]

(***************************************************************************)
(* Dispatch: coap_send_sensor_data_safe, the tasks it creates, and the     *)
(* station's association with the access point.                            *)
(***************************************************************************)
\* coap_send_sensor_data_safe, line 442: params[0] = uri.
SafeSetUri(i) ==
    /\ callers[i].pc = "set_uri"
    /\ callers[i].delay = 0
    /\ params' = [params EXCEPT ![1] = callers[i].uri]
    /\ callers' = [callers EXCEPT ![i].pc = "set_payload"]
    /\ UNCHANGED <<svars, tasks, ap_ok, net, wh, bvars, evars>>

\* Line 443: params[1] = payload.
SafeSetPayload(i) ==
    /\ callers[i].pc = "set_payload"
    /\ params' = [params EXCEPT ![2] = callers[i].payload]
    /\ callers' = [callers EXCEPT ![i].pc = "create"]
    /\ UNCHANGED <<svars, tasks, ap_ok, net, wh, bvars, evars>>

\* Faulty variant: the call returns only once the station is associated.
SafeCreateWhenReady(i) ==
    /\ callers[i].pc = "create"
    /\ ap_ok
    /\ tasks' = [tasks EXCEPT ![i].pc = "read_uri"]
    /\ callers' = [callers EXCEPT ![i].pc = "returned"]
    /\ UNCHANGED <<svars, params, ap_ok, net, wh, bvars, evars>>

\* Line 444: xTaskCreate(coap_send_task, .., params, ..), then the return.
SafeCreate(i) ==
    /\ callers[i].pc = "create"
    /\ tasks' = [tasks EXCEPT ![i].pc = "read_uri"]
    /\ callers' = [callers EXCEPT ![i].pc = "returned"]
    /\ UNCHANGED <<svars, params, ap_ok, net, wh, bvars, evars>>

\* A step of task i that touches only its own record.
TaskStep(i, pc, t) ==
    /\ tasks[i].pc = pc
    /\ tasks' = [tasks EXCEPT ![i] = t]
    /\ UNCHANGED <<svars, params, callers, ap_ok, net, wh, bvars, evars>>

TReadUri(i) == TaskStep(i, "read_uri", TaskReadUri(tasks[i], params))
TReadPayload(i) == TaskStep(i, "read_payload", TaskReadPayload(tasks[i], params))
\* Faulty variant: a poll that finds the station not associated calls
\* wifi_manager_reconnect.
TWaitReconnecting(i) ==
    /\ ~tasks[i].w.asleep
    /\ tasks[i].pc = "wait"
    /\ tasks' = [tasks EXCEPT ![i] = TaskWait(tasks[i], ap_ok)]
    /\ wifi' = IF ap_ok \/ tasks[i].w.waited >= tasks[i].w.timeout_ms THEN wifi
               ELSE [wifi EXCEPT !.connects = @ + 1]
    /\ UNCHANGED <<runs, sem, http, app, params, callers, ap_ok, net, wh,
                   bvars, evars>>

TWait(i) == /\ ~tasks[i].w.asleep
            /\ TaskStep(i, "wait", TaskWait(tasks[i], ap_ok))
TWaited(i) == TaskStep(i, "waited", TaskWaited(tasks[i]))
TParse(i) == TaskStep(i, "parse", SendParse(tasks[i]))
TBuild(i) == TaskStep(i, "build", SendBuild(tasks[i]))
TSocket(i) == \E created \in BOOLEAN :
                 TaskStep(i, "socket", SendSocket(tasks[i], created))
TPton(i) == TaskStep(i, "pton", SendPton(tasks[i]))

TSendto(i) ==
    /\ tasks[i].pc = "sendto"
    /\ \E r \in SendResults(tasks[i].message_len) :
          /\ tasks' = [tasks EXCEPT ![i] = SendSendto(tasks[i], r)]
          /\ net' = Append(net, SendtoCall(i, tasks[i], r))
    /\ UNCHANGED <<svars, params, callers, ap_ok, wh, bvars, evars>>

TClose(i) == TaskStep(i, "close", SendClose(tasks[i]))

\* vTaskDelete(NULL)
TDelete(i) == TaskStep(i, "delete", TaskDelete(tasks[i]))

\* The station gains or loses its association with the access point.
ApChange ==
    /\ ap_ok' = ~ap_ok
    /\ UNCHANGED <<svars, params, callers, tasks, net, wh, bvars, evars>>

\* One step of the direct call of wait_for_wifi.
WaitCall ==
    /\ wh.ret = "running"
    /\ ~wh.asleep
    /\ wh' = WaitStep(wh, ap_ok)
    /\ UNCHANGED <<svars, dvars, bvars, evars>>

\* Who can run now: an invocation under way, a task that is not asleep and
\* not deleted, the direct call of wait_for_wifi when not asleep.
CallerRunnable(i) == callers[i].pc # "returned" /\ callers[i].delay = 0
TaskRunnable(i) ==
    /\ tasks[i].pc \notin {"none", "deleted"}
    /\ ~(tasks[i].pc = "wait" /\ tasks[i].w.asleep)
WaitRunnable == wh.ret # "idle" /\ ~wh.asleep

\* The direct call returns; its locals are gone.
WaitReturn ==
    /\ wh.ret \in {"true", "false"}
    /\ wh' = [WaitStart(0) EXCEPT !.ret = "idle"]
    /\ UNCHANGED <<svars, dvars, bvars, evars>>

\* PollPeriodMs pass: time advances when nothing can run (code takes no
\* time against the 100 ms of a delay), and wakes whoever is in vTaskDelay;
\* an invocation still to come moves one tick closer.
Tick ==
    /\ \A i \in DOMAIN callers : ~CallerRunnable(i) /\ ~TaskRunnable(i)
    /\ ~WaitRunnable
    /\ \/ \E i \in DOMAIN callers :
             callers[i].delay > 0 \/ (tasks[i].pc = "wait" /\ tasks[i].w.asleep)
       \/ (wh.ret = "running" /\ wh.asleep)
    /\ callers' = [i \in DOMAIN callers |->
                     [callers[i] EXCEPT !.delay = IF @ > 0 THEN @ - 1 ELSE 0]]
    /\ tasks' = [i \in DOMAIN tasks |->
                   [tasks[i] EXCEPT !.w = WaitWake(@)]]
    /\ wh' = WaitWake(wh)
    /\ UNCHANGED <<svars, params, ap_ok, net, bvars, evars>>

CallerNext(i) == SafeSetUri(i) \/ SafeSetPayload(i) \/ SafeCreate(i)

TaskNext(i) ==
    \/ TReadUri(i) \/ TReadPayload(i) \/ TWait(i) \/ TWaited(i)
    \/ TParse(i) \/ TBuild(i)
    \/ TSocket(i) \/ TPton(i) \/ TSendto(i) \/ TClose(i) \/ TDelete(i)

SetUri == \E i \in DOMAIN callers : SafeSetUri(i)
SetPayload == \E i \in DOMAIN callers : SafeSetPayload(i)
Create == \E i \in DOMAIN callers : SafeCreate(i)
ReadUri == \E i \in DOMAIN callers : TReadUri(i)
ReadPayload == \E i \in DOMAIN callers : TReadPayload(i)
Wait == \E i \in DOMAIN callers : TWait(i)
Waited == \E i \in DOMAIN callers : TWaited(i)
Parse == \E i \in DOMAIN callers : TParse(i)
Build == \E i \in DOMAIN callers : TBuild(i)
Socket == \E i \in DOMAIN callers : TSocket(i)
Pton == \E i \in DOMAIN callers : TPton(i)
Sendto == \E i \in DOMAIN callers : TSendto(i)
Close == \E i \in DOMAIN callers : TClose(i)
Delete == \E i \in DOMAIN callers : TDelete(i)

DispatchNext ==
    \/ SetUri \/ SetPayload \/ Create
    \/ ReadUri \/ ReadPayload \/ Wait \/ Waited \/ Parse \/ Build
    \/ Socket \/ Pton \/ Sendto \/ Close \/ Delete
    \/ ApChange
    \/ Tick

(***************************************************************************)
(* wifi_manager.c: wifi_event_handler, run by the event loop task on one   *)
(* event at a time.  `handled` lists the events handled, each with the     *)
(* value of s_retry_num the handler left, whether it called                *)
(* esp_wifi_connect and whether it gave wifi_connected_semaphore;          *)
(* `connects` counts the calls of esp_wifi_connect.                        *)
(***************************************************************************)
EXAMPLE_ESP_MAXIMUM_RETRY == 5
MaxEvents == 7

\* The handler is registered for every WIFI_EVENT and for
\* IP_EVENT_STA_GOT_IP; STA_CONNECTED stands for the events it has no
\* branch for.
WifiEvents == {"STA_START", "STA_DISCONNECTED", "GOT_IP", "STA_CONNECTED"}

\* wifi_manager_init: the event group is new; s_retry_num = 0.
WifiIdle ==
    [s_retry_num |-> 0, connected |-> FALSE, connects |-> 0, handled |-> << >>]

Handled(w, event, connect, give) ==
    [w EXCEPT !.connects = IF connect THEN @ + 1 ELSE @,
              !.handled = Append(@, [event |-> event, retry |-> w.s_retry_num,
                                     connect |-> connect, give |-> give])]

\* Lines 29-32.
OnStaStart(w) ==
    Handled([w EXCEPT !.s_retry_num = 0], "STA_START", TRUE, FALSE)

\* Faulty variant: the retry is made while s_retry_num <= the maximum.
OnStaDisconnectedInclusive(w) ==
    LET c == [w EXCEPT !.connected = FALSE]
    IN  IF w.s_retry_num <= EXAMPLE_ESP_MAXIMUM_RETRY
        THEN Handled([c EXCEPT !.s_retry_num = @ + 1],
                     "STA_DISCONNECTED", TRUE, FALSE)
        ELSE Handled([c EXCEPT !.s_retry_num = 0],
                     "STA_DISCONNECTED", FALSE, FALSE)

\* Lines 33-75: the bit is cleared; then the counter goes up and, after a
\* delay of 2000 + s_retry_num * 1000 ms, esp_wifi_connect is called, or
\* the counter goes back to 0.
OnStaDisconnected(w) ==
    LET c == [w EXCEPT !.connected = FALSE]
    IN  IF w.s_retry_num < EXAMPLE_ESP_MAXIMUM_RETRY
        THEN Handled([c EXCEPT !.s_retry_num = @ + 1],
                     "STA_DISCONNECTED", TRUE, FALSE)
        ELSE Handled([c EXCEPT !.s_retry_num = 0],
                     "STA_DISCONNECTED", FALSE, FALSE)

\* Faulty variant: GOT_IP gives the semaphore and leaves the bit clear.
OnGotIpSilent(w) ==
    Handled([w EXCEPT !.s_retry_num = 0], "GOT_IP", FALSE, TRUE)

\* Lines 76-86; the semaphore exists, app_main made it before
\* wifi_manager_init.
OnGotIp(w) ==
    Handled([w EXCEPT !.s_retry_num = 0, !.connected = TRUE],
            "GOT_IP", FALSE, TRUE)

\* No branch of the handler.
OnOther(w) == Handled(w, "STA_CONNECTED", FALSE, FALSE)

\* wifi_manager_is_connected, lines 167-171.
wifi_manager_is_connected == wifi.connected

\* xSemaphoreGive on a binary semaphore: full afterwards.
Given(count) == 1

\* The handler runs on event e; no more than max events are handled.
HandleEvent(e, max) ==
    /\ Len(wifi.handled) < max
    /\ wifi' = CASE e = "STA_START" -> OnStaStart(wifi)
                  [] e = "STA_DISCONNECTED" -> OnStaDisconnected(wifi)
                  [] e = "GOT_IP" -> OnGotIp(wifi)
                  [] OTHER -> OnOther(wifi)
    /\ sem' = IF e = "GOT_IP" THEN Given(sem) ELSE sem

StaStart ==
    /\ HandleEvent("STA_START", MaxEvents)
    /\ UNCHANGED <<bvars, evars, dvars, wh, runs, http, app>>

StaDisconnected ==
    /\ HandleEvent("STA_DISCONNECTED", MaxEvents)
    /\ UNCHANGED <<bvars, evars, dvars, wh, runs, http, app>>

GotIp ==
    /\ HandleEvent("GOT_IP", MaxEvents)
    /\ UNCHANGED <<bvars, evars, dvars, wh, runs, http, app>>

StaConnected ==
    /\ HandleEvent("STA_CONNECTED", MaxEvents)
    /\ UNCHANGED <<bvars, evars, dvars, wh, runs, http, app>>

\* xSemaphoreTake by whoever waits for the semaphore.
SemaphoreTake ==
    /\ sem = 1
    /\ sem' = 0
    /\ UNCHANGED <<bvars, evars, dvars, wh, runs, wifi, http, app>>

WifiNext == StaStart \/ StaDisconnected \/ GotIp \/ StaConnected \/ SemaphoreTake

(***************************************************************************)
(* http_client.c: http_client_post, one call of the HTTP client library    *)
(* per step.  `results` lists what esp_http_client_perform returned.       *)
(***************************************************************************)
HTTP_MAX_RETRIES == 3
MaxPerforms == 5

\* What a call of esp_http_client_perform can give: a transport error, or
\* ESP_OK with the status code the server answered.
StatusCodes == {199, 200, 299, 300, 500}
PerformResults ==
    {[err |-> "ESP_ERR_HTTP_CONNECT", status |-> 0]}
        \cup {[err |-> "ESP_OK", status |-> c] : c \in StatusCodes}

HttpIdle ==
    [pc |-> "idle", client |-> FALSE, err |-> "ESP_FAIL", retry_count |-> 0,
     results |-> << >>, cleanups |-> 0, ret |-> "none"]

\* Lines 26-45; created says whether esp_http_client_init gave a client.
PostInit(h, created) ==
    IF ~created THEN [h EXCEPT !.pc = "returned", !.ret = "ESP_FAIL"]
    ELSE [h EXCEPT !.pc = "loop", !.client = TRUE, !.err = "ESP_FAIL",
                   !.retry_count = 0]

\* Lines 47-83: the loop test and, if it holds, one iteration in which
\* esp_http_client_perform returned r.
PostLoop(h, r) ==
    IF h.retry_count < HTTP_MAX_RETRIES /\ h.err # "ESP_OK"
    THEN LET p == [h EXCEPT !.results = Append(@, r)]
         IN  IF r.err = "ESP_OK"
             THEN [p EXCEPT !.err = IF r.status >= 200 /\ r.status < 300
                                    THEN "ESP_OK" ELSE "ESP_FAIL"]
             ELSE [p EXCEPT !.err = r.err, !.retry_count = @ + 1,
                            !.pc = IF h.retry_count + 1 < HTTP_MAX_RETRIES
                                   THEN "delay" ELSE "loop"]
    ELSE [h EXCEPT !.pc = "cleanup"]

\* Lines 85-86.
PostCleanup(h) ==
    [h EXCEPT !.cleanups = @ + 1, !.ret = h.err, !.pc = "returned"]

HttpInit ==
    /\ http.pc = "init"
    /\ \E created \in BOOLEAN : http' = PostInit(http, created)
    /\ UNCHANGED <<bvars, evars, dvars, wh, runs, wifi, sem, app>>

\* The test fails and the loop is left.
HttpLeave ==
    /\ http.pc = "loop"
    /\ ~(http.retry_count < HTTP_MAX_RETRIES /\ http.err # "ESP_OK")
    /\ http' = PostLoop(http, CHOOSE r \in PerformResults : TRUE)
    /\ UNCHANGED <<bvars, evars, dvars, wh, runs, wifi, sem, app>>

\* One iteration; no more than MaxPerforms are followed.
HttpPerform ==
    /\ http.pc = "loop"
    /\ http.retry_count < HTTP_MAX_RETRIES /\ http.err # "ESP_OK"
    /\ Len(http.results) < MaxPerforms
    /\ \E r \in PerformResults : http' = PostLoop(http, r)
    /\ UNCHANGED <<bvars, evars, dvars, wh, runs, wifi, sem, app>>

\* vTaskDelay(pdMS_TO_TICKS(20000)) returns.
HttpDelay ==
    /\ http.pc = "delay"
    /\ http' = [http EXCEPT !.pc = "loop"]
    /\ UNCHANGED <<bvars, evars, dvars, wh, runs, wifi, sem, app>>

HttpCleanup ==
    /\ http.pc = "cleanup"
    /\ http' = PostCleanup(http)
    /\ UNCHANGED <<bvars, evars, dvars, wh, runs, wifi, sem, app>>

HttpNext == HttpInit \/ HttpLeave \/ HttpPerform \/ HttpDelay \/ HttpCleanup

(***************************************************************************)
(* main.c: app_main from the top of its loop, one wake cycle.  Time is     *)
(* counted in ticks of PollPeriodMs.  esp_deep_sleep does not return: the  *)
(* chip is powered down and every task ends with it.                       *)
(***************************************************************************)
\* xSemaphoreTake(.., pdMS_TO_TICKS(30000)) and vTaskDelay(pdMS_TO_TICKS(2000))
SemaphoreWaitMs == 30000
AfterSendMs == 2000
MaxStationEvents == 3

\* "coap://192.168.1.52:5683/sensor/send-data"
AppUri ==
    <<99, 111, 97, 112, 58, 47, 47, 49, 57, 50, 46, 49, 54, 56, 46, 49, 46,
    53, 50, 58, 53, 54, 56, 51, 47, 115, 101, 110, 115, 111, 114, 47, 115,
    101, 110, 100, 45, 100, 97, 116, 97>>

\* The payload snprintf gives for the readings 21.5, 60.0, 45.0 and 800:
\* {"api_key":"gh001_api_key_abc123","node_id":"greenhouse_001",
\*  "temperature":21.5,"humidity":60.0,"soil_moisture":45.0,"light":800}
AppPayload ==
    <<123, 34, 97, 112, 105, 95, 107, 101, 121, 34, 58, 34, 103, 104, 48,
    48, 49, 95, 97, 112, 105, 95, 107, 101, 121, 95, 97, 98, 99, 49, 50,
    51, 34, 44, 34, 110, 111, 100, 101, 95, 105, 100, 34, 58, 34, 103, 114,
    101, 101, 110, 104, 111, 117, 115, 101, 95, 48, 48, 49, 34, 44, 34,
    116, 101, 109, 112, 101, 114, 97, 116, 117, 114, 101, 34, 58, 50, 49,
    46, 53, 44, 34, 104, 117, 109, 105, 100, 105, 116, 121, 34, 58, 54, 48,
    46, 48, 44, 34, 115, 111, 105, 108, 95, 109, 111, 105, 115, 116, 117,
    114, 101, 34, 58, 52, 53, 46, 48, 44, 34, 108, 105, 103, 104, 116, 34,
    58, 56, 48, 48, 125>>

AppIdle == [pc |-> "idle", ticks |-> 0, took |-> FALSE]

\* Lines 36-50 are done: the semaphore is there and empty, the WiFi manager
\* is started, app_main is about to wait for the semaphore.
AppStart ==
    [pc |-> "take", ticks |-> SemaphoreWaitMs \div PollPeriodMs, took |-> FALSE]

Awake == app.pc # "deep_sleep"

\* Lines 53-72: the semaphore is taken; the readings are put into the
\* payload and coap_send_sensor_data_safe(uri, payload) is called.
AppTake ==
    /\ app.pc = "take"
    /\ sem = 1
    /\ sem' = 0
    /\ app' = [app EXCEPT !.pc = "send", !.took = TRUE, !.ticks = 0]
    /\ callers' = [callers EXCEPT ![1] = [pc |-> "set_uri", uri |-> AppUri,
                                          payload |-> AppPayload, delay |-> 0]]
    /\ UNCHANGED <<params, tasks, ap_ok, net, wh, bvars, evars, runs, wifi, http>>

\* Lines 53, 77-80: 30000 ms have passed without the semaphore.
AppTimeout ==
    /\ app.pc = "take"
    /\ sem = 0
    /\ app.ticks = 0
    /\ app' = [app EXCEPT !.pc = "sleep"]
    /\ UNCHANGED <<dvars, wh, bvars, evars, runs, wifi, sem, http>>

\* Line 75: coap_send_sensor_data_safe has returned; vTaskDelay(2000) begins.
AppDelay ==
    /\ app.pc = "send"
    /\ callers[1].pc = "returned"
    /\ app' = [app EXCEPT !.pc = "delay", !.ticks = AfterSendMs \div PollPeriodMs]
    /\ UNCHANGED <<dvars, wh, bvars, evars, runs, wifi, sem, http>>

\* Line 75: vTaskDelay returns.
AppDelayed ==
    /\ app.pc = "delay"
    /\ app.ticks = 0
    /\ app' = [app EXCEPT !.pc = "sleep"]
    /\ UNCHANGED <<dvars, wh, bvars, evars, runs, wifi, sem, http>>

\* Line 84: esp_deep_sleep(20 * 1000000).  A send task that has not got to
\* vTaskDelete is cut off where it is.
AppSleep ==
    /\ app.pc = "sleep"
    /\ app' = [app EXCEPT !.pc = "deep_sleep"]
    /\ tasks' = [i \in DOMAIN tasks |->
                   IF tasks[i].pc \in {"none", "deleted"} THEN tasks[i]
                   ELSE [tasks[i] EXCEPT !.pc = "cut_off"]]
    /\ UNCHANGED <<params, callers, ap_ok, net, wh, bvars, evars, runs, wifi,
                   sem, http>>

AppRunnable ==
    \/ app.pc = "take" /\ (sem = 1 \/ app.ticks = 0)
    \/ app.pc = "send"
    \/ app.pc = "delay" /\ app.ticks = 0
    \/ app.pc = "sleep"

\* PollPeriodMs pass while app_main and the send task are blocked.
StationTick ==
    /\ Awake
    /\ ~AppRunnable
    /\ \A i \in DOMAIN tasks : ~TaskRunnable(i)
    /\ app' = [app EXCEPT !.ticks = @ - 1]
    /\ tasks' = [i \in DOMAIN tasks |-> [tasks[i] EXCEPT !.w = WaitWake(@)]]
    /\ UNCHANGED <<params, callers, ap_ok, net, wh, bvars, evars, runs, wifi,
                   sem, http>>

\* The event loop task handles an event.
StationEvent ==
    /\ Awake
    /\ \E e \in WifiEvents : HandleEvent(e, MaxStationEvents)
    /\ UNCHANGED <<bvars, evars, dvars, wh, runs, http, app>>

\* The station gains or loses its association while the chip is awake.
StationAp == Awake /\ ApChange

StationNext ==
    \/ AppTake \/ AppTimeout \/ AppDelay \/ AppDelayed \/ AppSleep
    \/ SetUri \/ SetPayload \/ Create
    \/ ReadUri \/ ReadPayload \/ Wait \/ Waited \/ Parse \/ Build
    \/ Socket \/ Pton \/ Sendto \/ Close \/ Delete
    \/ StationAp \/ StationEvent \/ StationTick

StationInit ==
    /\ params = <<NULL, NULL>>
    /\ callers = [i \in {1} |->
                    [pc |-> "idle", uri |-> NULL, payload |-> NULL, delay |-> 0]]
    /\ tasks = [i \in {1} |-> NewTask]
    /\ ap_ok \in BOOLEAN
    /\ net = << >>
    /\ wh = [WaitStart(0) EXCEPT !.ret = "idle"]
    /\ wifi = WifiIdle
    /\ sem = 0
    /\ app = AppStart

(***************************************************************************)
(* Initial states of the dispatch specifications                          *)
(***************************************************************************)
WaitIdle == [WaitStart(0) EXCEPT !.ret = "idle"]

DispatchIdle ==
    /\ params = <<NULL, NULL>>
    /\ callers = << >>
    /\ tasks = << >>
    /\ ap_ok = FALSE
    /\ net = << >>
    /\ wh = WaitIdle

\* Invocations 1..MaxInvocations with arguments of their own, each made
\* now or some ticks from now.
DispatchInit ==
    /\ params = <<NULL, NULL>>
    /\ \E d \in [1..MaxInvocations -> 0..MaxStartDelay] :
          callers = [i \in 1..MaxInvocations |->
                       [pc |-> "set_uri", uri |-> InvocationArgs(i).uri,
                        payload |-> InvocationArgs(i).payload, delay |-> d[i]]]
    /\ tasks = [i \in 1..MaxInvocations |-> NewTask]
    /\ ap_ok \in BOOLEAN
    /\ net = << >>
    /\ wh = WaitIdle

\* One invocation with any of the SendInputs, and one direct call of
\* wait_for_wifi with any of the WaitTimeouts.
SendInit ==
    /\ params = <<NULL, NULL>>
    /\ \E a \in SendInputs :
          callers = [i \in {1} |->
                       [pc |-> "set_uri", uri |-> a.uri, payload |-> a.payload,
                        delay |-> 0]]
    /\ tasks = [i \in {1} |-> NewTask]
    /\ ap_ok \in BOOLEAN
    /\ net = << >>
    /\ \E ms \in WaitTimeouts : wh = WaitStart(ms)

(***************************************************************************)
(* Specifications                                                          *)
(***************************************************************************)
vars == <<bvars, evars, dvars, wh, svars>>


\* Nothing but the component a specification is about is in use.
SystemIdle ==
    /\ runs = << >>
    /\ wifi = WifiIdle
    /\ sem = 0
    /\ http = HttpIdle
    /\ app = AppIdle

BuilderIdle ==
    /\ msg = coap_message_init(<< >>, 0)
    /\ bcall = [NoCall EXCEPT !.op = "idle"]
    /\ ncalls = 0

EncoderIdle ==
    /\ ein = [uri |-> << >>, payload |-> << >>, buffer_size |-> 0]
    /\ enc = EncIdle

\* Either a sequence of calls on the message builder, or one run of
\* parse_coap_uri and build_simple_coap_message.
CodecInit ==
    /\ \/ BuilderInit /\ EncoderIdle
       \/ EncInit /\ BuilderIdle
    /\ DispatchIdle
    /\ SystemIdle

CodecNext == BuilderNext \/ EncNext

SpecCodec == CodecInit /\ [][CodecNext]_vars

\* One run of parse_coap_uri and build_simple_coap_message on each of the
\* ParseInputs.
ParseInit ==
    /\ ein \in ParseInputs
    /\ enc = [EncIdle EXCEPT !.pc = "parse"]
    /\ BuilderIdle
    /\ DispatchIdle
    /\ SystemIdle

ParseNext == EncParse \/ EncHeader \/ EncSegment \/ EncContentFormat \/ EncPayload

SpecParse == ParseInit /\ [][ParseNext]_vars

\* Calls of coap_message_add_option with wide inputs.
WideInit ==
    /\ OptionInit
    /\ EncoderIdle
    /\ DispatchIdle
    /\ SystemIdle

\* Calls of build_simple_coap_message one after the other.
AgainInit ==
    /\ RepeatInit
    /\ BuilderIdle
    /\ DispatchIdle
    /\ SystemIdle

RepeatNext ==
    \/ EncParse \/ EncHeader \/ EncSegment \/ EncContentFormat \/ EncPayload
    \/ EncRepeat

SpecRepeat == AgainInit /\ [][RepeatNext]_vars

OptionNext == AddOptionWide

SpecOption == WideInit /\ [][OptionNext]_vars

\* The event handler of the WiFi manager on any sequence of events.
ManagerInit ==
    /\ BuilderIdle /\ EncoderIdle
    /\ DispatchIdle
    /\ SystemIdle

SpecWifi == ManagerInit /\ [][WifiNext]_vars

\* One call of http_client_post.
PostStart ==
    /\ BuilderIdle /\ EncoderIdle
    /\ DispatchIdle
    /\ runs = << >> /\ wifi = WifiIdle /\ sem = 0 /\ app = AppIdle
    /\ http = [HttpIdle EXCEPT !.pc = "init"]

SpecHttp == PostStart /\ [][HttpNext]_vars

\* One wake cycle of app_main with the WiFi manager and the send task.
WakeInit ==
    /\ StationInit
    /\ BuilderIdle /\ EncoderIdle
    /\ runs = << >> /\ http = HttpIdle

SpecStation == WakeInit /\ [][StationNext]_vars

\* Concurrent invocations of coap_send_sensor_data_safe.
ConcurrentInit ==
    /\ DispatchInit
    /\ BuilderIdle /\ EncoderIdle
    /\ SystemIdle

Spec == ConcurrentInit /\ [][DispatchNext]_vars

\* One invocation, and wait_for_wifi called directly.
SendNext == DispatchNext \/ WaitCall \/ WaitReturn

SingleInit ==
    /\ SendInit
    /\ BuilderIdle /\ EncoderIdle
    /\ SystemIdle

SpecSend == SingleInit /\ [][SendNext]_vars

\* The scheduler runs every task that can take a step (a created task is
\* never starved) and time passes, so that vTaskDelay returns.
FairSpecSend ==
    /\ SpecSend
    /\ \A i \in {1} : WF_vars(CallerNext(i)) /\ WF_vars(TaskNext(i))
    /\ WF_vars(WaitCall \/ WaitReturn)
    /\ WF_vars(Tick)

(***************************************************************************)
(* What the claims are stated with: the option layout of the wire format,  *)
(* written independently of the encoder.                                   *)
(***************************************************************************)
\* Extension bytes of a delta or length: none below 13, one for 13..268,
\* two from 269.
ExtCount(v) == IF v < 13 THEN 0 ELSE IF v < 269 THEN 1 ELSE 2

\* The non-empty pieces of s between '/' bytes, in order.
RECURSIVE Segments(_)
Segments(s) ==
    IF s = << >> THEN << >>
    ELSE IF \E j \in 1..Len(s) : s[j] = Ch.slash
    THEN LET k == CHOOSE j \in 1..Len(s) :
                     s[j] = Ch.slash /\ \A m \in 1..(j - 1) : s[m] # Ch.slash
         IN  (IF k = 1 THEN << >> ELSE <<SubSeq(s, 1, k - 1)>>)
                \o Segments(SubSeq(s, k + 1, Len(s)))
    ELSE <<s>>

\* Uri-Path options in the one-byte form: 0xB0|len for the first, 0x00|len
\* for the others, each followed by the segment.
RECURSIVE UriPathOptions(_, _)
UriPathOptions(segs, first) ==
    IF segs = << >> THEN << >>
    ELSE <<(IF first THEN 176 ELSE 0) + Len(segs[1])>> \o segs[1]
            \o UriPathOptions(Tail(segs), FALSE)

PayloadPart(payload) == IF payload = << >> THEN << >> ELSE <<255>> \o payload

\* The message the wire layout prescribes for a path and a payload.
WireLayout(path, payload) ==
    <<64, 2, 18, 52>> \o UriPathOptions(Segments(path), TRUE) \o <<17, 50>>
        \o PayloadPart(payload)

\* A CoAP option decoder: the options of message b from index i, the
\* previous option number being num; it stops at the payload marker.
RECURSIVE DecodeOptions(_, _, _)
DecodeOptions(b, i, num) ==
    IF i > Len(b) \/ b[i] = 255 THEN << >>
    ELSE LET dn == b[i] \div 16
             ln == b[i] % 16
             de == ExtCount(dn + (IF dn = 14 THEN 255 ELSE 0))
             le == ExtCount(ln + (IF ln = 14 THEN 255 ELSE 0))
             ext(n, at, cnt) == IF cnt = 0 THEN n
                                ELSE IF cnt = 1 THEN b[at] + 13
                                ELSE b[at] * 256 + b[at + 1] + 269
             delta == ext(dn, i + 1, de)
             len == ext(ln, i + 1 + de, le)
             v == i + 1 + de + le
         IN  IF v + len - 1 > Len(b) THEN << >>
             ELSE <<[number |-> num + delta, value |-> SubSeq(b, v, v + len - 1)]>>
                     \o DecodeOptions(b, v + len, num + delta)

\* The message a finished build reports: the first message_len bytes.
Built(st) == SubSeq(st.buffer, 1, st.message_len)
EncDone == enc.pc = "done"
EncBuilt == enc.pc = "done" /\ enc.ret

(***************************************************************************)
(* Claims                                                                  *)
(***************************************************************************)
\* C1: the write position of build_simple_coap_message never exceeds
\* buffer_size at any step and the reported message_len is at most
\* buffer_size; the builder's length never exceeds its capacity after any
\* sequence of init / add_header / add_option / add_payload calls.
C1_LengthWithinCapacity ==
    /\ 0 <= enc.pos /\ enc.pos <= enc.buffer_size
    /\ enc.message_len # NotSet => enc.message_len <= enc.buffer_size
    /\ 0 <= msg.length /\ msg.length <= msg.capacity
    /\ \A k \in 1..Len(enc.buffer) : k > enc.pos => enc.buffer[k] = Unwritten

\* C1 witness: a build that fills its buffer to the last byte.
C1_Witness ==
    /\ EncBuilt
    /\ enc.message_len = enc.buffer_size
    /\ Len(Segments(enc.uri.path)) >= 2
    /\ enc.payload # << >>

\* C2 as stated: a call that needs more than capacity - length returns
\* false and changes nothing; a call that succeeds grows length by
\* 1 + delta extension + length extension + value_len for an option and by
\* 1 + payload_len for a payload.
C2_AsStated ==
    LET pre == bcall.pre
        delta == (bcall.number - pre.last_option_number) % 65536
        need == IF bcall.op = "option"
                THEN 1 + ExtCount(delta) + ExtCount(bcall.value_len)
                       + bcall.value_len
                ELSE 1 + Len(bcall.payload)
    IN  (bcall.op \in {"option", "payload"} /\ bcall.payload # NULL) =>
           /\ need > pre.capacity - pre.length => ~bcall.ok /\ msg = pre
           /\ ~bcall.ok => msg = pre
           /\ bcall.ok => msg.length = pre.length + need

\* C2 amended: as stated for an option and for a non-empty payload; a NULL
\* or empty payload always succeeds and changes nothing.
C2_Atomic ==
    LET pre == bcall.pre
        delta == (bcall.number - pre.last_option_number) % 65536
        need == IF bcall.op = "option"
                THEN 1 + ExtCount(delta) + ExtCount(bcall.value_len)
                       + bcall.value_len
                ELSE 1 + Len(bcall.payload)
        empty == bcall.op = "payload" /\ bcall.payload \in {NULL, << >>}
    IN  /\ (bcall.op \in {"option", "payload"} /\ ~empty) =>
              /\ need > pre.capacity - pre.length => ~bcall.ok /\ msg = pre
              /\ ~bcall.ok => msg = pre
              /\ bcall.ok =>
                    /\ msg.length = pre.length + need
                    /\ msg.capacity = pre.capacity
                    /\ \A k \in 1..pre.length : msg.buffer[k] = pre.buffer[k]
                    /\ \A k \in (msg.length + 1)..pre.capacity :
                          msg.buffer[k] = pre.buffer[k]
        /\ empty => bcall.ok /\ msg = pre

\* C2 witness: an option with a 13-byte value refused although its first
\* byte and value alone would fit: the extension byte decides.
C2_Witness ==
    /\ bcall.op = "option" /\ ~bcall.ok /\ bcall.value # NULL
    /\ bcall.value_len >= 13
    /\ bcall.pre.length > 0
    /\ bcall.pre.length + 1 + bcall.value_len <= bcall.pre.capacity

C4_AsStated ==
    EncBuilt =>
        LET opts == DecodeOptions(Built(enc), 5, 0)
            cf == {k \in 1..Len(opts) :
                      opts[k].number = COAP_OPTION_CONTENT_FORMAT}
        IN  /\ Cardinality(cf) = 1
            /\ \A k \in cf : opts[k].value = <<COAP_CONTENT_FORMAT_JSON>>

\* C5: a non-empty payload that fits ends the message as one 0xFF byte and
\* then the payload, right behind the Content-Format option; an empty
\* payload adds nothing behind that option; a payload needing more than
\* the capacity left fails the build.  The same holds of
\* coap_message_add_payload.
C5_PayloadFraming ==
    /\ EncBuilt /\ enc.payload # << >> =>
          LET m == Built(enc)
              n == Len(enc.payload)
          IN  /\ Len(m) >= n + 7
              /\ SubSeq(m, Len(m) - n + 1, Len(m)) = enc.payload
              /\ m[Len(m) - n] = 255
              /\ SubSeq(m, Len(m) - n - 2, Len(m) - n - 1) = <<17, 50>>
              /\ Len(DecodeOptions(m, 5, 0)) = Len(Segments(enc.uri.path)) + 1
    /\ EncBuilt /\ enc.payload = << >> =>
          LET m == Built(enc)
          IN  /\ SubSeq(m, Len(m) - 1, Len(m)) = <<17, 50>>
              /\ Len(m) = 6 + Len(UriPathOptions(Segments(enc.uri.path), TRUE))
    /\ (EncDone /\ enc.at = "payload" /\ enc.payload # << >>) =>
          (enc.ret <=> enc.message_len # NotSet)
    /\ (EncDone /\ enc.at = "payload" /\ ~enc.ret) =>
          /\ enc.payload # << >>
          /\ 1 + Len(enc.payload) > enc.buffer_size - enc.pos
    /\ (bcall.op = "payload" /\ bcall.payload \notin {NULL, << >>}) =>
          /\ bcall.ok <=>
                1 + Len(bcall.payload) <= bcall.pre.capacity - bcall.pre.length
          /\ bcall.ok =>
                SubSeq(msg.buffer, bcall.pre.length + 1, msg.length)
                   = <<255>> \o bcall.payload

\* C5 witness: a payload refused by one byte, the options having fitted.
C5_Witness ==
    /\ EncDone /\ enc.at = "payload" /\ ~enc.ret
    /\ Len(enc.payload) = enc.buffer_size - enc.pos
    /\ enc.pos > 6

\* The values of the Uri-Path options a decoder finds in message m.
UriPathValues(m) ==
    LET opts == SelectSeq(DecodeOptions(m, 5, 0),
                          LAMBDA o : o.number = COAP_OPTION_URI_PATH)
    IN  [k \in 1..Len(opts) |-> opts[k].value]

HasLongSegment(path) ==
    \E k \in 1..Len(Segments(path)) : Len(Segments(path)[k]) >= 13

\* The sendto calls of task i so far.
SendtoCallsOf(i) == {k \in 1..Len(net) : net[k].task = i}

InTrace(t, what) == \E k \in 1..Len(t.trace) : t.trace[k] = what
IsPrefix(a, b) == Len(a) <= Len(b) /\ SubSeq(b, 1, Len(a)) = a

StagesToSendto == <<"ready", "parsed", "built", "socket", "address", "sendto">>
FailedStage ==
    {"not_ready", "invalid", "parse_failed", "build_failed", "socket_failed",
     "address_failed", "send_failed"}

\* C7: sendto is reached only after parse, build, socket creation and
\* address conversion succeeded, in that order; a failed stage ends the
\* attempt at once; what is handed to sendto is the whole message of a
\* build that returned true, addressed to a well-formed host.
C7_StageOrder ==
    \A i \in DOMAIN tasks :
        LET t == tasks[i]
            n == Len(t.trace)
        IN  /\ InTrace(t, "sendto") => IsPrefix(StagesToSendto, t.trace)
            /\ \A k \in 1..n :
                  t.trace[k] \in FailedStage => k = n /\ t.pc = "delete"
            /\ (n > 0 /\ t.trace[n] \notin FailedStage /\ t.trace[n] # "sent")
                  => IsPrefix(t.trace, StagesToSendto)
            /\ (SendtoCallsOf(i) # {} /\ t.pc # "deleted")
                  => InTrace(t, "sendto")
            /\ \A k \in SendtoCallsOf(i) :
                  LET c == callers[i]
                      u == parse_coap_uri(c.uri)
                      want == WireLayout(u.path, c.payload)
                  IN  /\ c.uri # NULL /\ c.payload # NULL
                      /\ u.ok
                      /\ InetPton(net[k].host) /\ net[k].host = u.host
                      /\ net[k].message_len = Len(net[k].message)
                      /\ Len(net[k].message) <= CoapBufferSize
                      /\ u.path # << >> => net[k].message = want
                      /\ \A j \in 1..Len(net[k].message) :
                            net[k].message[j] # Unwritten

\* C7 witness: a datagram has been handed to sendto after all four stages.
C7_Witness ==
    \E i \in DOMAIN tasks :
        /\ tasks[i].trace = StagesToSendto
        /\ SendtoCallsOf(i) # {}
        /\ tasks[i].payload # << >>

\* C8: when no poll of the 10000 ms wait succeeds the task ends without
\* parsing, encoding, opening a socket or sending; a parse, an encode or a
\* send happens only after a poll reported ready.
C8_TimeoutSendsNothing ==
    \A i \in DOMAIN tasks :
        LET t == tasks[i]
            untouched == /\ t.parsed = NoUri
                         /\ t.message = << >> /\ t.message_len = NotSet
                         /\ t.sock = "none"
                         /\ SendtoCallsOf(i) = {}
        IN  /\ (t.pc = "waited" /\ t.w.ret = "false") =>
                  /\ t.w.polls = WifiWaitMs \div PollPeriodMs
                  /\ t.w.waited = WifiWaitMs
                  /\ t.trace = << >>
                  /\ untouched
            /\ InTrace(t, "not_ready") =>
                  /\ t.trace = <<"not_ready">>
                  /\ t.pc = "delete" /\ t.outcome = "timeout"
                  /\ untouched
            /\ t.outcome = "timeout" => untouched
            /\ t.pc \in {"none", "read_uri", "read_payload", "wait", "waited"}
                  => untouched /\ t.trace = << >>
            /\ (t.pc # "deleted" /\ ~untouched) => t.trace[1] = "ready"
            /\ (t.pc \in {"parse", "build", "socket", "pton", "sendto", "close"})
                  => t.trace[1] = "ready" /\ t.w.ret = "true"

\* C8 witness: the wait has run out after its 100 polls and the task is
\* about to be deleted.
C8_Witness ==
    \E i \in DOMAIN tasks :
        /\ tasks[i].pc = "delete" /\ tasks[i].outcome = "timeout"
        /\ callers[i].uri = UriScenarioA
        /\ callers[i].payload = PayloadT1

\* What a call of wait_for_wifi has done so far, whatever the bound on its
\* polls: a true return follows failed polls only, a false return follows
\* the exhaustion of the timeout, and a timeout of zero or less polls never.
WaitShape(w) ==
    /\ w.polls >= 0 /\ w.waited >= 0
    /\ w.ret = "running" => w.waited = w.polls * PollPeriodMs
    /\ w.ret = "true" =>
          /\ w.polls >= 1
          /\ w.waited = (w.polls - 1) * PollPeriodMs
          /\ w.waited < w.timeout_ms
    /\ w.ret = "false" =>
          /\ w.waited = w.polls * PollPeriodMs
          /\ w.waited >= w.timeout_ms
    /\ w.timeout_ms <= 0 => w.polls = 0 /\ w.ret # "true"

Ended(t) == t.pc \in {"delete", "deleted"}

\* The call wait_for_wifi(10000) of the task, while it is under way.
TaskWaitCall ==
    IF tasks[1].pc \in {"wait", "waited"} THEN tasks[1].w
    ELSE WaitStart(WifiWaitMs)

\* Each call in progress returns true at the poll that finds the station
\* associated.
TrueAtFirstReadyPoll ==
    /\ (wh.ret = "running" /\ ~wh.asleep /\ wh.waited < wh.timeout_ms
           /\ ap_ok /\ wh' # wh) => wh'.ret = "true"
    /\ (tasks[1].pc = "wait" /\ ~tasks[1].w.asleep
           /\ tasks[1].w.waited < tasks[1].w.timeout_ms
           /\ ap_ok /\ tasks'[1] # tasks[1]) => tasks'[1].w.ret = "true"

EveryAttemptEnds ==
    /\ (tasks[1].pc # "none") ~> (tasks[1].pc = "deleted")
    /\ (wh.ret = "running") ~> (wh.ret = "idle")

\* C9 as stated: every created task reaches vTaskDelete with one of the
\* outcomes sent, parse failure, encode failure, transmit failure, network
\* timeout; wait_for_wifi(timeout_ms) polls at most timeout_ms/100 times,
\* returns true at the first successful poll and false otherwise, with no
\* poll when timeout_ms <= 0.
C9_AsStated ==
    /\ [](/\ WaitShape(wh) /\ WaitShape(TaskWaitCall)
          /\ wh.polls * PollPeriodMs <= (IF wh.timeout_ms > 0
                                         THEN wh.timeout_ms ELSE 0)
          /\ TaskWaitCall.polls * PollPeriodMs <= TaskWaitCall.timeout_ms
          /\ Ended(tasks[1]) =>
                tasks[1].outcome \in {"sent", "parse_failure", "encode_failure",
                                      "transmit_failure", "timeout"})
    /\ [][TrueAtFirstReadyPoll]_vars
    /\ EveryAttemptEnds

\* C9 amended: every created task reaches vTaskDelete with one of the
\* outcomes sent, invalid parameters, parse failure, encode failure,
\* transmit failure, network timeout; wait_for_wifi(timeout_ms) polls at
\* most ceil(timeout_ms/100) times (the last poll starts before timeout_ms
\* has been waited), returns true at the first successful poll and false
\* otherwise, with no poll when timeout_ms <= 0.
C9_Terminates ==
    /\ [](/\ WaitShape(wh) /\ WaitShape(TaskWaitCall)
          /\ wh.polls > 0 => (wh.polls - 1) * PollPeriodMs < wh.timeout_ms
          /\ TaskWaitCall.polls * PollPeriodMs <= TaskWaitCall.timeout_ms
          /\ Ended(tasks[1]) =>
                tasks[1].outcome \in {"sent", "invalid_parameters",
                                      "parse_failure", "encode_failure",
                                      "transmit_failure", "timeout"})
    /\ [][TrueAtFirstReadyPoll]_vars
    /\ EveryAttemptEnds

\* C9 witness: wait_for_wifi(150) is returning false after its second poll,
\* beside a task that has been created.
C9_Witness ==
    /\ wh.ret = "false" /\ wh.timeout_ms = 150 /\ wh.polls = 2
    /\ tasks[1].pc # "none"

\* C10 as stated: under every interleaving each task works on the uri and
\* the payload of its own invocation, and what it hands to sendto is the
\* message for them, addressed to the host of its own uri.
C10_AsStated ==
    \A i \in DOMAIN tasks :
        LET t == tasks[i]
            c == callers[i]
            u == parse_coap_uri(c.uri)
        IN  /\ t.pc \notin {"none", "read_uri", "deleted"} => t.uri = c.uri
            /\ t.pc \notin {"none", "read_uri", "read_payload", "deleted"}
                  => t.payload = c.payload
            /\ \A k \in SendtoCallsOf(i) :
                  /\ net[k].host = u.host
                  /\ net[k].message = WireLayout(u.path, c.payload)

\* C11: coap_send_sensor_data_safe returns after creating the task without
\* waiting for readiness, encoding or transmission: an invocation under way
\* can always take its next step, whatever the station and the tasks do; it
\* has returned exactly when its task exists; only a task inside
\* wait_for_wifi is ever suspended.
C11_CallerNeverBlocked ==
    \A i \in DOMAIN callers :
        /\ callers[i].pc \in {"set_uri", "set_payload", "create", "returned"}
        /\ (callers[i].pc # "returned" /\ callers[i].delay = 0)
              => ENABLED CallerNext(i)
        /\ callers[i].pc = "returned" <=> tasks[i].pc # "none"
        /\ tasks[i].w.asleep =>
              /\ tasks[i].pc = "wait"
              /\ callers[i].pc = "returned"
              /\ tasks[i].parsed = NoUri /\ tasks[i].message_len = NotSet
              /\ SendtoCallsOf(i) = {}

\* C11 witness: the second invocation has taken a step and can take the
\* next while the task of the first, returned, invocation is suspended in
\* wait_for_wifi.
C11_Witness ==
    /\ callers[1].pc = "returned"
    /\ tasks[1].pc = "wait" /\ tasks[1].w.asleep
    /\ callers[2].pc = "set_payload"
    /\ ENABLED CallerNext(2)

\* How often task t has done `what`.
TimesInTrace(t, what) == Cardinality({k \in 1..Len(t.trace) : t.trace[k] = what})

\* C12: the socket send_coap_udp opens is closed before the call returns on
\* every path (address failure, sendto failure, success); an invocation
\* opens at most one socket, and none is open once the attempt has its
\* outcome or its task has ended.
C12_SocketReleased ==
    \A i \in DOMAIN tasks :
        LET t == tasks[i]
        IN  /\ t.sock \in {"none", "open", "closed"}
            /\ t.sock = "open" <=> t.pc \in {"pton", "sendto", "close"}
            /\ (t.outcome # "none" \/ Ended(t)) => t.sock # "open"
            /\ TimesInTrace(t, "socket") <= 1
            /\ (t.pc # "deleted" /\ t.sock # "none") <=> InTrace(t, "socket")
            /\ (t.pc = "delete" /\ InTrace(t, "socket")) =>
                  /\ t.sock = "closed"
                  /\ t.outcome \in {"transmit_failure", "sent"}
            /\ (t.pc = "deleted" /\ t.outcome = "sent") => t.sock = "closed"

\* C12 witness: inet_pton has refused the host and the attempt has ended
\* with its socket closed.
C12_Witness ==
    \E i \in DOMAIN tasks :
        /\ tasks[i].pc = "delete"
        /\ tasks[i].trace[Len(tasks[i].trace)] = "address_failed"
        /\ tasks[i].sock = "closed"

\* C13: an invocation calls sendto at most once, and exactly once when
\* parse, build, socket creation and address conversion all succeeded; after
\* the call, whatever it returned, the task only closes the socket and ends.
C13_SingleTransmission ==
    \A i \in DOMAIN tasks :
        LET t == tasks[i]
            n == Cardinality(SendtoCallsOf(i))
        IN  /\ n <= 1
            /\ t.pc # "deleted" => n = TimesInTrace(t, "sendto")
            /\ (InTrace(t, "address") /\ t.pc # "sendto") => n = 1
            /\ t.outcome = "sent" => n = 1
            /\ n = 1 => t.pc \in {"close", "delete", "deleted"}
            /\ (n = 0 /\ Ended(t)) => t.outcome # "sent"

\* C13 witness: the one sendto of an invocation failed and its task is gone.
C13_Witness ==
    \E i \in DOMAIN tasks :
        /\ tasks[i].pc = "deleted"
        /\ \E k \in SendtoCallsOf(i) : net[k].ret < 0
        /\ Cardinality(SendtoCallsOf(i)) = 1

\* C14: send_coap_udp reports failure whenever sendto returned a negative
\* value or accepted fewer bytes than message_len, and reports success only
\* when sendto accepted exactly message_len bytes.
C14_AsStated ==
    \A i \in DOMAIN tasks :
        \A k \in SendtoCallsOf(i) :
            Ended(tasks[i]) =>
                /\ (net[k].ret < 0 \/ net[k].ret < net[k].message_len)
                      => tasks[i].outcome = "transmit_failure"
                /\ tasks[i].outcome = "sent" => net[k].ret = net[k].message_len

\* Index of the first byte c of s, 0 when there is none.
FirstOf(s, c) ==
    IF \E k \in 1..Len(s) : s[k] = c
    THEN CHOOSE k \in 1..Len(s) : s[k] = c /\ \A j \in 1..(k - 1) : s[j] # c
    ELSE 0

\* The reading 'coap://H[:P]/PATH[?Q]' of a URI text: the authority runs to
\* the first '/', H to the first ':' of the authority, PATH to the first '?'.
UriText(uri) ==
    LET rest == SubSeq(uri, Len(Scheme) + 1, Len(uri))
        sl == FirstOf(rest, Ch.slash)
        auth == IF sl = 0 THEN rest ELSE SubSeq(rest, 1, sl - 1)
        pq == IF sl = 0 THEN << >> ELSE SubSeq(rest, sl + 1, Len(rest))
        col == FirstOf(auth, Ch.colon)
        qm == FirstOf(pq, Ch.qmark)
    IN  [scheme |-> IsPrefix(Scheme, uri),
         slash |-> sl > 0,
         H |-> IF col = 0 THEN auth ELSE SubSeq(auth, 1, col - 1),
         has_port |-> col > 0,
         P |-> IF col = 0 THEN << >> ELSE SubSeq(auth, col + 1, Len(auth)),
         PATH |-> IF qm = 0 THEN pq ELSE SubSeq(pq, 1, qm - 1),
         has_query |-> qm > 0,
         Q |-> IF qm = 0 THEN << >> ELSE SubSeq(pq, qm + 1, Len(pq))]

\* p is a decimal port: digits only, of a value up to 65535.
DecimalPort(p) ==
    /\ Len(p) > 0
    /\ \A k \in 1..Len(p) : p[k] \in Digits
    /\ DecVal(p, 1, Len(p)) <= 65535

\* The URIs C15 speaks of.
DecomposableUri(uri) ==
    LET x == UriText(uri)
    IN  /\ x.scheme /\ x.slash
        /\ Len(x.H) \in 1..63
        /\ x.has_port => DecimalPort(x.P)
        /\ Len(x.PATH) \in 1..63
        /\ Len(x.Q) <= 63
        /\ \A k \in 1..Len(uri) : uri[k] \in NonSpace

\* parse_coap_uri has returned.
EncParsed == enc.pc \notin {"idle", "parse"}

\* C15: for 'coap://H[:P]/PATH[?Q]' with H of 1..63 bytes, P a decimal port,
\* PATH of 1..63 bytes, Q of at most 63 bytes and no white space,
\* parse_coap_uri returns true with host = H, port = P (5683 without ':P'),
\* path = PATH and query = Q, the text after the first '?'.
C15_UriDecomposition ==
    (EncParsed /\ DecomposableUri(ein.uri)) =>
        LET x == UriText(ein.uri)
        IN  /\ enc.pc # "rejected"
            /\ enc.uri.ok
            /\ enc.uri.host = x.H
            /\ enc.uri.port = IF x.has_port THEN DecVal(x.P, 1, Len(x.P))
                              ELSE 5683
            /\ enc.uri.path = x.PATH
            /\ enc.uri.query = x.Q

\* C15 witness: a URI with a 63-byte host, a port with a leading zero, a
\* 63-byte path and a query that holds a second '?' has been parsed.
C15_Witness ==
    /\ EncParsed /\ DecomposableUri(ein.uri)
    /\ Len(UriText(ein.uri).H) = 63
    /\ UriText(ein.uri).P = <<48, 56, 48>>
    /\ Len(UriText(ein.uri).PATH) = 63
    /\ FirstOf(UriText(ein.uri).Q, Ch.qmark) > 0
    /\ enc.uri.port = 80

\* The port a URI text writes: the decimal after ':', 5683 without one.
WrittenPort(uri) ==
    LET x == UriText(uri)
    IN  IF x.has_port THEN DecVal(x.P, 1, Len(x.P)) ELSE 5683

\* C16: after every successful parse the parsed port is within 0..65535,
\* and the port a datagram is addressed to is the port written in the URI.
C16_AsStated ==
    \A i \in DOMAIN tasks :
        LET t == tasks[i]
        IN  /\ t.parsed.ok => t.parsed.port \in 0..65535
            /\ t.pc # "deleted" =>
                  \A k \in SendtoCallsOf(i) : net[k].port = WrittenPort(t.uri)

\* C17: after every successful parse host, path and query each hold at most
\* 63 bytes and each is a prefix of its URI component; an over-long path or
\* query, with or without a '?', is cut to its field and nothing is written
\* past the 64-byte field it belongs to.
C17_AsStated ==
    (EncParsed /\ enc.uri.ok) =>
        LET x == UriText(ein.uri)
        IN  /\ Len(enc.uri.host) <= HostSize - 1
            /\ Len(enc.uri.path) <= PathSize - 1
            /\ Len(enc.uri.query) <= QuerySize - 1
            /\ IsPrefix(enc.uri.host, x.H)
            /\ IsPrefix(enc.uri.path, x.PATH)
            /\ IsPrefix(enc.uri.query, x.Q)
            /\ ~enc.uri.overflow

\* The scheme separator or a non-empty host cannot be isolated in the text.
MalformedUri(uri) == ~UriText(uri).scheme \/ Len(UriText(uri).H) = 0

\* C18: parse_coap_uri returns false for every URI without the 'coap://'
\* scheme separator or without a non-empty host, and coap_send_sensor_data
\* then writes no message buffer, opens no socket and sends nothing; every
\* successful parse has a non-empty host.
C18_AsStated ==
    \A i \in DOMAIN tasks :
        LET t == tasks[i]
        IN  /\ t.parsed.ok => Len(t.parsed.host) > 0
            /\ (t.uri # NULL /\ t.payload # NULL /\ MalformedUri(t.uri)
                   /\ (InTrace(t, "parsed") \/ InTrace(t, "parse_failed"))) =>
                  /\ ~t.parsed.ok /\ InTrace(t, "parse_failed")
                  /\ t.message_len = NotSet /\ t.message = << >>
                  /\ t.sock = "none"
                  /\ SendtoCallsOf(i) = {}

\* The URI text without its query, and the URIs that differ from it only
\* in the query.
StripQuery(uri) ==
    IF FirstOf(uri, Ch.qmark) = 0 THEN uri
    ELSE SubSeq(uri, 1, FirstOf(uri, Ch.qmark) - 1)
QueryVariants(uri) == {StripQuery(uri) \o q : q \in ParseQueries}

\* The message coap_send_sensor_data builds for a URI and a payload; NULL
\* when the URI is rejected or the build fails.
SendOutput(uri, payload) ==
    LET u == parse_coap_uri(uri)
        b == build_simple_coap_message(u, payload,
                 Rep(Unwritten, CoapBufferSize), CoapBufferSize)
    IN  IF u.ok /\ b.ret THEN Built(b) ELSE NULL

\* What task t built, once parse and build have been decided.
TaskBuildDecided(t) ==
    InTrace(t, "built") \/ InTrace(t, "build_failed") \/ InTrace(t, "parse_failed")
TaskOutput(t) == IF t.message_len = NotSet THEN NULL ELSE t.message

NoUriQueryOption(m) ==
    \A k \in 1..Len(DecodeOptions(m, 5, 0)) :
        DecodeOptions(m, 5, 0)[k].number # 15

\* C19 as stated: any URI that differs from the task's only in the query
\* gives, with the same payload, the same built and transmitted bytes, and
\* no message holds a Uri-Query option.
C19_AsStated ==
    \A i \in DOMAIN tasks :
        LET t == tasks[i]
        IN  TaskBuildDecided(t) =>
                /\ \A v \in QueryVariants(t.uri) :
                      SendOutput(v, t.payload) = TaskOutput(t)
                /\ \A k \in SendtoCallsOf(i) : net[k].message = TaskOutput(t)
                /\ TaskOutput(t) # NULL => NoUriQueryOption(TaskOutput(t))

\* C19: any URI that differs from the task's only in the query and that
\* parse_coap_uri accepts as it accepted the task's gives, with the same
\* payload, the same built and transmitted bytes (the same build failure
\* when the build fails); no built or transmitted message holds a Uri-Query
\* option (number 15).
C19_QueryNotEmitted ==
    \A i \in DOMAIN tasks :
        LET t == tasks[i]
        IN  TaskBuildDecided(t) =>
                /\ \A v \in QueryVariants(t.uri) :
                      (t.parsed.ok /\ parse_coap_uri(v).ok) =>
                          SendOutput(v, t.payload) = TaskOutput(t)
                /\ \A k \in SendtoCallsOf(i) :
                      /\ net[k].message = TaskOutput(t)
                      /\ NoUriQueryOption(net[k].message)
                /\ TaskOutput(t) # NULL => NoUriQueryOption(TaskOutput(t))

\* C19 witness: a URI with the query "k=v" has been parsed, its message
\* built and handed to sendto.
C19_Witness ==
    \E i \in DOMAIN tasks :
        /\ tasks[i].parsed.query = <<107, 61, 118>>
        /\ tasks[i].parsed.path # << >>
        /\ tasks[i].pc = "close"
        /\ SendtoCallsOf(i) # {}

\* C20: coap_message_add_option returns false, leaving length and
\* last_option_number unchanged, for an option whose number is smaller
\* than that of the option appended before it, so the option numbers of
\* every message it builds are non-decreasing.
C20_AsStated ==
    /\ (bcall.op = "option" /\ bcall.number < bcall.pre.last_option_number) =>
          /\ ~bcall.ok
          /\ msg.length = bcall.pre.length
          /\ msg.last_option_number = bcall.pre.last_option_number
    /\ (bcall.op = "option" /\ bcall.ok) =>
          msg.last_option_number >= bcall.pre.last_option_number

\* The bytes the last call of the builder appended.
Appended == SubSeq(msg.buffer, bcall.pre.length + 1, msg.length)

\* The extension bytes the encoding prescribes for a delta or a length.
PrescribedExt(v) ==
    IF v < 13 THEN << >>
    ELSE IF v < 269 THEN <<v - 13>>
    ELSE <<(v - 269) \div 256, (v - 269) % 256>>

\* A decoder's reading of the one option that starts at b[1], the previous
\* option number being num: its number, its value and the bytes it spans.
DecodeOne(b, num) ==
    LET dn == b[1] \div 16
        ln == b[1] % 16
        de == IF dn = 13 THEN 1 ELSE IF dn = 14 THEN 2 ELSE 0
        le == IF ln = 13 THEN 1 ELSE IF ln = 14 THEN 2 ELSE 0
        delta == IF de = 0 THEN dn ELSE IF de = 1 THEN b[2] + 13
                 ELSE b[2] * 256 + b[3] + 269
        len == IF le = 0 THEN ln ELSE IF le = 1 THEN b[2 + de] + 13
               ELSE b[2 + de] * 256 + b[3 + de] + 269
    IN  [number |-> num + delta,
         value |-> SubSeq(b, 2 + de + le, 1 + de + le + len),
         span |-> 1 + de + le + len]

\* The encoding the format prescribes for an option of the given delta and
\* value: first byte, delta extension, length extension, value.
PrescribedOption(delta, value) ==
    LET nib(v) == IF v < 13 THEN v ELSE IF v < 269 THEN 13 ELSE 14
    IN  <<16 * nib(delta) + nib(Len(value))>>
           \o PrescribedExt(delta) \o PrescribedExt(Len(value)) \o value

\* a holds the prescribed bytes of the option and a decoder reads the
\* option number and the value back from it.
EncodesOption(a, prev, number, value) ==
    /\ a = PrescribedOption(number - prev, value)
    /\ \A k \in 1..Len(a) : a[k] \in 0..255
    /\ \E d \in {DecodeOne(a, prev)} :
          d.number = number /\ d.value = value /\ d.span = Len(a)

SameArguments ==
    {k \in 1..Len(runs) :
        /\ runs[k].uri = enc.uri
        /\ runs[k].payload = enc.payload
        /\ runs[k].buffer_size = enc.buffer_size}

\* C22: a call of build_simple_coap_message returns the value and leaves
\* the buffer and the message length that every earlier call with the same
\* parsed URI, payload and buffer size did, whatever was encoded in between.
C22_Deterministic ==
    enc.pc = "done" =>
        \A k \in SameArguments :
            /\ runs[k].ret = enc.ret
            /\ runs[k].buffer = enc.buffer
            /\ runs[k].message_len = enc.message_len

\* The third call repeats the first, both wrote two path segments and the
\* payload, and the call between them encoded another path.
C22_Witness ==
    /\ enc.pc = "done" /\ enc.ret
    /\ Len(runs) = 2
    /\ SameArguments = {1}
    /\ enc.uri.path = <<97, 47, 97>>
    /\ enc.payload = PayloadT1
    /\ runs[2].ret
    /\ SubSeq(enc.buffer, 1, 4) = <<64, 2, 18, 52>>

(***************************************************************************)
(* The WiFi manager                                                        *)
(***************************************************************************)
\* The STA_DISCONNECTED events among the first j handled that came after
\* the last GOT_IP or STA_START among them.
RunOfDisconnects(j) ==
    {k \in 1..j :
        /\ wifi.handled[k].event = "STA_DISCONNECTED"
        /\ \A m \in k..j : wifi.handled[m].event \notin {"GOT_IP", "STA_START"}}

\* C25: s_retry_num stays in 0..5; the first five STA_DISCONNECTED events
\* of a run without GOT_IP or STA_START each raise it by one and call
\* esp_wifi_connect, the sixth sets it to 0 and does not call; GOT_IP and
\* STA_START set it to 0.
C25_RetryBound ==
    /\ wifi.s_retry_num \in 0..5
    /\ \A j \in 1..Len(wifi.handled) :
          LET h == wifi.handled[j]
              n == Cardinality(RunOfDisconnects(j))
          IN  /\ h.retry \in 0..5
              /\ h.event \in {"GOT_IP", "STA_START"} => h.retry = 0
              /\ h.event = "STA_DISCONNECTED" /\ n \in 1..5 =>
                     h.connect /\ h.retry = n
              /\ h.event = "STA_DISCONNECTED" /\ n = 6 =>
                     ~h.connect /\ h.retry = 0

\* Six STA_DISCONNECTED events in a row after a GOT_IP have been handled.
C25_Witness ==
    /\ Len(wifi.handled) = 7
    /\ wifi.handled[1].event = "GOT_IP"
    /\ Cardinality(RunOfDisconnects(7)) = 6
    /\ wifi.handled[6].connect
    /\ ~wifi.handled[7].connect

\* The GOT_IP and STA_DISCONNECTED events handled so far.
LinkEvents ==
    {k \in 1..Len(wifi.handled) :
        wifi.handled[k].event \in {"GOT_IP", "STA_DISCONNECTED"}}

\* C26: wifi_manager_is_connected() is true exactly when the last GOT_IP or
\* STA_DISCONNECTED event handled was GOT_IP, and false before any; the
\* events that gave the semaphore are the GOT_IP events.
C26_ConnectedFlag ==
    /\ wifi_manager_is_connected <=>
          /\ LinkEvents # {}
          /\ \E k \in LinkEvents :
                /\ \A m \in LinkEvents : m <= k
                /\ wifi.handled[k].event = "GOT_IP"
    /\ \A k \in 1..Len(wifi.handled) :
          wifi.handled[k].give <=> wifi.handled[k].event = "GOT_IP"
    /\ (\E k \in 1..Len(wifi.handled) : wifi.handled[k].give) \/ sem = 0

\* Connected, lost, connected again, and then events that are neither.
C26_Witness ==
    /\ Len(wifi.handled) = 5
    /\ wifi.handled[1].event = "GOT_IP"
    /\ wifi.handled[2].event = "STA_DISCONNECTED"
    /\ wifi.handled[3].event = "GOT_IP"
    /\ wifi.handled[4].event = "STA_CONNECTED"
    /\ wifi.handled[5].event = "STA_START"
    /\ wifi_manager_is_connected
    /\ sem = 1

(***************************************************************************)
(* http_client_post                                                        *)
(***************************************************************************)
\* C24: http_client_post calls esp_http_client_perform at most
\* HTTP_MAX_RETRIES times whatever the calls return, and when it has
\* returned with a client it has called esp_http_client_cleanup once.
C24_AsStated ==
    /\ Len(http.results) <= HTTP_MAX_RETRIES
    /\ http.pc = "returned" /\ http.client => http.cleanups = 1
    /\ http.cleanups <= 1

(***************************************************************************)
(* The send path beside the WiFi manager and app_main                      *)
(***************************************************************************)
\* A step of coap_send_sensor_data_safe or of the task it made:
\* wait_for_wifi, parse_coap_uri, build_simple_coap_message, send_coap_udp.
SendPathStep ==
    \/ SetUri \/ SetPayload \/ Create
    \/ ReadUri \/ ReadPayload \/ Wait \/ Waited \/ Parse \/ Build
    \/ Socket \/ Pton \/ Sendto \/ Close \/ Delete

\* C23: no step of a send attempt changes s_retry_num, the connected bit or
\* the semaphore, and none calls esp_wifi_connect.
C23_ReadsOnly ==
    [][SendPathStep =>
          /\ wifi'.s_retry_num = wifi.s_retry_num
          /\ wifi'.connected = wifi.connected
          /\ wifi'.connects = wifi.connects
          /\ sem' = sem]_vars

\* A datagram went out after the task had waited through polls that found
\* no association, with a retry of the WiFi manager under way.
C23_Witness ==
    /\ tasks[1].outcome = "sent"
    /\ Len(net) = 1
    /\ tasks[1].w.ret = "true"
    /\ wifi.s_retry_num = 1
    /\ wifi.connects = 1
    /\ app.pc = "delay" /\ app.ticks < AfterSendMs \div PollPeriodMs

\* C27: whenever a send task called sendto, the connected bit of the WiFi
\* manager was set.
C27_AsStated == \A k \in 1..Len(net) : net[k].connected

\* C28: when app_main enters deep sleep every send task it dispatched has
\* reached its end; a send is dispatched only after the semaphore was taken.
C28_AsStated ==
    /\ app.pc = "deep_sleep" =>
          \A i \in DOMAIN tasks : tasks[i].pc \in {"none", "deleted"}
    /\ callers[1].pc # "idle" => app.took

=============================================================================
